---- MODULE Spec2Model ----
(***************************************************************************)
(* A model of k8r (src/k8r.py): the name sanitizer, the resource-quantity  *)
(* parser, the source classifier and the workload builder of class K8sRun, *)
(* the platform objects (Jobs, Deployments, ConfigMaps, Secrets, pods,     *)
(* built images) that the run command reads and writes, the two job        *)
(* monitors with their log-streaming threads, and the names that the run   *)
(* and secret commands generate.                                           *)
(*                                                                         *)
(* Python strings are TLA+ strings; TLC evaluates Len, \o and SubSeq on    *)
(* them, so the regular expressions and slices of the source are computed  *)
(* character by character.                                                 *)
(***************************************************************************)
EXTENDS Integers, Sequences, FiniteSets, TLC

VARIABLES
    pc,             \* position of the driver of the specification at hand
    raw_name,       \* sanitize_k8s_name: the argument `name`
    max_length,     \* sanitize_k8s_name: the argument `max_length`
    sanitized,      \* the string returned by the first application
    resanitized,    \* the string returned on applying it to its own result
    resource_spec,  \* parse_resource_spec: the argument (None or a string)
    parsed,         \* parse_resource_spec: None or <<requests, limits>>
    location,       \* detect_source_type: the argument `source`
    path_kind,      \* what the path `location` is on the local filesystem
    detected,       \* detect_source_type: the kind returned, or "ValueError"
    args,           \* the command line of the run command that the user issues
    platform,       \* the objects of the namespace, and the pushed images
    last,           \* the last invocation: its flags, outcome, output and calls
    runs,           \* two run commands in flight: where each stands, what it did
    job_status,     \* the status of the monitored Job, as the platform reports it
    monitor,        \* the monitor of the run command: its locals and what it did
    naming_in,      \* the names given to the run and secret commands
    naming_out      \* the resource names the commands generate from them

sanitizeVars == <<raw_name, max_length, sanitized, resanitized>>
parseVars == <<resource_spec, parsed>>
detectVars == <<location, path_kind, detected>>

runVars == <<args, platform, last, runs>>
monitorVars == <<job_status, monitor>>
namingVars == <<naming_in, naming_out>>

vars == <<pc, sanitizeVars, parseVars, detectVars, runVars, monitorVars, namingVars>>

\* Optional[str]: None, or the one-element tuple holding the string
None == <<>>
Some(s) == <<s>>

----------------------------------------------------------------------------
(* Strings                                                                 *)

LowerCase == "abcdefghijklmnopqrstuvwxyz"
UpperCase == "ABCDEFGHIJKLMNOPQRSTUVWXYZ"
Digits == "0123456789"

CharAt(s, i) == SubSeq(s, i, i)

HasChar(s, c) == \E i \in 1..Len(s) : CharAt(s, i) = c

\* the characters of a string, as a set
CharsOf(s) == {CharAt(s, i) : i \in 1..Len(s)}
LowerCaseChars == CharsOf(LowerCase)
UpperCaseChars == CharsOf(UpperCase)
DigitChars == CharsOf(Digits)
\* the lower-case letter of each upper-case letter, and back
ToLower == [c \in UpperCaseChars |->
               CharAt(LowerCase, CHOOSE i \in 1..Len(UpperCase) : CharAt(UpperCase, i) = c)]
ToUpper == [c \in LowerCaseChars |->
               CharAt(UpperCase, CHOOSE i \in 1..Len(LowerCase) : CharAt(LowerCase, i) = c)]

\* str.startswith / str.endswith
StartsWith(s, p) == Len(s) >= Len(p) /\ SubSeq(s, 1, Len(p)) = p
EndsWith(s, p) == Len(s) >= Len(p) /\ SubSeq(s, Len(s) - Len(p) + 1, Len(s)) = p

\* the character class [a-z0-9]
IsAlnum(c) == c \in LowerCaseChars \/ c \in DigitChars

\* str.lower() on one (ASCII) character
LowerChar(c) == IF c \in UpperCaseChars THEN ToLower[c] ELSE c

RECURSIVE LowerFrom(_, _)
LowerFrom(s, i) ==
    IF i > Len(s) THEN "" ELSE LowerChar(CharAt(s, i)) \o LowerFrom(s, i + 1)

\* str.lower()
Lower(s) == LowerFrom(s, 1)

----------------------------------------------------------------------------
(* K8sRun.sanitize_k8s_name                                                *)

\* re.sub(r'[^a-z0-9.-]', '-', name), one character
ReplaceInvalidChar(c) == IF IsAlnum(c) \/ c = "." \/ c = "-" THEN c ELSE "-"

RECURSIVE ReplaceInvalidFrom(_, _)
ReplaceInvalidFrom(s, i) ==
    IF i > Len(s) THEN ""
    ELSE ReplaceInvalidChar(CharAt(s, i)) \o ReplaceInvalidFrom(s, i + 1)

ReplaceInvalid(s) == ReplaceInvalidFrom(s, 1)

RECURSIVE StripLeading(_)
\* re.sub(r'^[^a-z0-9]+', '', name)
StripLeading(s) ==
    IF s = "" \/ IsAlnum(CharAt(s, 1)) THEN s
    ELSE StripLeading(SubSeq(s, 2, Len(s)))

RECURSIVE StripTrailing(_)
\* re.sub(r'[^a-z0-9]+$', '', name)
StripTrailing(s) ==
    IF s = "" \/ IsAlnum(CharAt(s, Len(s))) THEN s
    ELSE StripTrailing(SubSeq(s, 1, Len(s) - 1))

IsSep(c) == c = "-" \/ c = "."

RECURSIVE Collapse(_, _)
\* re.sub(r'[-\.]+', '-', name): every maximal run of '-'/'.' becomes one '-'
Collapse(s, i) ==
    IF i > Len(s) THEN ""
    ELSE IF IsSep(CharAt(s, i))
         THEN IF i > 1 /\ IsSep(CharAt(s, i - 1))
              THEN Collapse(s, i + 1)
              ELSE "-" \o Collapse(s, i + 1)
         ELSE CharAt(s, i) \o Collapse(s, i + 1)

\* name[:max_length] for max_length >= 0
Prefix(s, n) == IF Len(s) > n THEN SubSeq(s, 1, n) ELSE s

\* the steps before the truncation (src/k8r.py:862-876)
SanitizeBody(s) ==
    LET collapsed == Collapse(StripTrailing(StripLeading(ReplaceInvalid(Lower(s)))), 1)
    IN  IF collapsed = "" THEN "unnamed" ELSE collapsed

\* mutant: the truncated name is not stripped again
sanitize_k8s_name_NoRestrip(s, m) ==
    LET n == SanitizeBody(s) IN IF Len(n) > m THEN Prefix(n, m) ELSE n

\* mutant: the truncation keeps one character too many
sanitize_k8s_name_OffByOne(s, m) ==
    LET n == SanitizeBody(s)
    IN  IF Len(n) > m THEN StripTrailing(Prefix(n, m + 1)) ELSE n

sanitize_k8s_name(s, m) ==
    LET n == SanitizeBody(s)
    IN  IF Len(n) > m THEN StripTrailing(Prefix(n, m)) ELSE n

----------------------------------------------------------------------------
(* K8sRun.parse_resource_spec                                              *)

IsSpace(c) == c = " " \/ c = "\t" \/ c = "\n" \/ c = "\r"

RECURSIVE LStrip(_)
LStrip(s) ==
    IF s = "" \/ ~IsSpace(CharAt(s, 1)) THEN s ELSE LStrip(SubSeq(s, 2, Len(s)))

RECURSIVE RStrip(_)
RStrip(s) ==
    IF s = "" \/ ~IsSpace(CharAt(s, Len(s))) THEN s
    ELSE RStrip(SubSeq(s, 1, Len(s) - 1))

\* str.strip()
Strip(s) == RStrip(LStrip(s))

\* value[:-2]
DropLast2(s) == SubSeq(s, 1, Len(s) - 2)

\* mutant: the 'mb' branch is missing
normalize_quantity_NoMb(value) ==
    LET v == Strip(value)
    IN  IF EndsWith(v, "gb") THEN DropLast2(v) \o "Gi" ELSE v

normalize_quantity(value) ==
    LET v == Strip(value)
    IN  IF EndsWith(v, "gb") THEN DropLast2(v) \o "Gi"
        ELSE IF EndsWith(v, "mb") THEN DropLast2(v) \o "Mi"
        ELSE v

\* position of the first occurrence of c in s (c occurs in s)
FirstIndex(s, c) ==
    CHOOSE i \in 1..Len(s) :
        CharAt(s, i) = c /\ \A j \in 1..(i - 1) : CharAt(s, j) # c

\* mutant: the limit is taken from the left part too
parse_resource_spec_LeftTwice(spec) ==
    IF spec = None \/ spec = Some("") THEN None
    ELSE LET s == spec[1]
         IN  IF HasChar(s, "-")
             THEN LET i == FirstIndex(s, "-")
                  IN  <<normalize_quantity(SubSeq(s, 1, i - 1)),
                        normalize_quantity(SubSeq(s, 1, i - 1))>>
             ELSE <<normalize_quantity(s), normalize_quantity(s)>>

\* `not resource_spec` holds for None and for ''; split('-', 1) cuts at the
\* first hyphen and gives two parts whenever there is one
parse_resource_spec(spec) ==
    IF spec = None \/ spec = Some("") THEN None
    ELSE LET s == spec[1]
         IN  IF HasChar(s, "-")
             THEN LET i == FirstIndex(s, "-")
                  IN  <<normalize_quantity(SubSeq(s, 1, i - 1)),
                        normalize_quantity(SubSeq(s, i + 1, Len(s)))>>
             ELSE <<normalize_quantity(s), normalize_quantity(s)>>

----------------------------------------------------------------------------
(* K8sRun.detect_source_type                                               *)

\* os.path.isfile / os.path.isdir / os.path.exists of a path that is absent,
\* a regular file, a directory, or something else (a socket, a device)
PathKinds == {"absent", "file", "dir", "other"}
isfile(kind) == kind = "file"
isdir(kind) == kind = "dir"
exists(kind) == kind # "absent"

\* source.startswith(("git@", "https://github.com", "http://github.com"))
GitPrefixed(src) ==
    \/ StartsWith(src, "git@")
    \/ StartsWith(src, "https://github.com")
    \/ StartsWith(src, "http://github.com")

\* mutant: the Dockerfile rule does not ask for a regular file
detect_source_type_AnyDockerfile(src, kind) ==
    IF src = "Dockerfile" \/ EndsWith(src, "Dockerfile") THEN "dockerfile"
    ELSE IF GitPrefixed(src) THEN "github"
    ELSE IF isdir(kind) THEN "directory"
    ELSE IF HasChar(src, ":") /\ ~exists(kind) THEN "container"
    ELSE "ValueError"

\* mutant: the directory test comes before the git prefix test
detect_source_type_DirFirst(src, kind) ==
    IF src = "Dockerfile" \/ (isfile(kind) /\ EndsWith(src, "Dockerfile"))
    THEN "dockerfile"
    ELSE IF isdir(kind) THEN "directory"
    ELSE IF GitPrefixed(src) THEN "github"
    ELSE IF HasChar(src, ":") /\ ~exists(kind) THEN "container"
    ELSE "ValueError"

detect_source_type(src, kind) ==
    IF src = "Dockerfile" \/ (isfile(kind) /\ EndsWith(src, "Dockerfile"))
    THEN "dockerfile"
    ELSE IF GitPrefixed(src) THEN "github"
    ELSE IF isdir(kind) THEN "directory"
    ELSE IF HasChar(src, ":") /\ ~exists(kind) THEN "container"
    ELSE "ValueError"

----------------------------------------------------------------------------
(* More string operations of the workload builder                          *)

\* str.upper() on one (ASCII) character
UpperChar(c) == IF c \in LowerCaseChars THEN ToUpper[c] ELSE c

RECURSIVE ReplaceAll(_, _, _)
\* str.replace(old, new), old not empty
ReplaceAll(s, old, new) ==
    IF Len(s) < Len(old) THEN s
    ELSE IF StartsWith(s, old)
         THEN new \o ReplaceAll(SubSeq(s, Len(old) + 1, Len(s)), old, new)
         ELSE CharAt(s, 1) \o ReplaceAll(SubSeq(s, 2, Len(s)), old, new)

RECURSIVE UpperFrom(_, _)
UpperFrom(s, i) ==
    IF i > Len(s) THEN "" ELSE UpperChar(CharAt(s, i)) \o UpperFrom(s, i + 1)

\* str.upper()
Upper(s) == UpperFrom(s, 1)

RECURSIVE AfterLastSlash(_, _)
AfterLastSlash(s, i) ==
    IF i = 0 THEN s
    ELSE IF CharAt(s, i) = "/" THEN SubSeq(s, i + 1, Len(s))
    ELSE AfterLastSlash(s, i - 1)

\* os.path.basename(path), also source.split("/")[-1]
Basename(path) == AfterLastSlash(path, Len(path))

RECURSIVE Join(_, _)
\* sep.join(words)
Join(words, sep) ==
    IF Len(words) = 0 THEN ""
    ELSE IF Len(words) = 1 THEN words[1]
    ELSE words[1] \o sep \o Join(Tail(words), sep)

RECURSIVE StrToNat(_, _)
\* int(s) of a string of decimal digits, acc the value read so far
StrToNat(s, acc) ==
    IF s = "" THEN acc
    ELSE StrToNat(SubSeq(s, 2, Len(s)),
                  10 * acc + ((CHOOSE i \in 1..10 : CharAt(Digits, i) = CharAt(s, 1)) - 1))

IsDigits(s) == s # "" /\ \A i \in 1..Len(s) : CharAt(s, i) \in DigitChars

\* K8sRun.parse_timeout: seconds, or -1 when int() raises ValueError
parse_timeout(t) ==
    LET unit == IF t = "" THEN "" ELSE CharAt(t, Len(t))
        scaled == unit \in {"s", "m", "h"}
        digits == IF scaled THEN SubSeq(t, 1, Len(t) - 1) ELSE t
        factor == IF unit = "m" THEN 60 ELSE IF unit = "h" THEN 3600 ELSE 1
    IN  IF IsDigits(digits) THEN StrToNat(digits, 0) * factor ELSE -1

----------------------------------------------------------------------------
(* The platform: the namespace's objects as the API server holds them      *)

\* the directory k8r is started in, and os.path.abspath of a source
Cwd == "/home/user/work"
abspath(path) == IF StartsWith(path, "/") THEN path ELSE Cwd \o "/" \o path

\* f without the key k / f with k bound to v
Without(f, k) == [x \in DOMAIN f \ {k} |-> f[x]]
With(f, k, v) == [x \in DOMAIN f \cup {k} |-> IF x = k THEN v ELSE f[x]]

\* the empty mapping of object names to objects
NoObjects == [x \in {} |-> x]

\* a mutating API call or an image build, as logged in ctx.calls
Call(op, n) == [op |-> op, name |-> n]
Log(ctx, op, n) == [ctx EXCEPT !.calls = Append(@, Call(op, n))]

\* K8sRun.job_exists: read_namespaced_job answers, or 404
job_exists(ctx, job_name) == job_name \in DOMAIN ctx.jobs

\* K8sRun.get_job_secrets: the secrets labelled created-by=k8r,k8r-job=<job_name>
RECURSIVE get_job_secrets_from(_, _, _)
get_job_secrets_from(secrets, job_name, i) ==
    IF i > Len(secrets) THEN <<>>
    ELSE LET secret == secrets[i]
             rest == get_job_secrets_from(secrets, job_name, i + 1)
         IN  IF secret.labels.created_by = "k8r" /\ secret.labels.k8r_job = job_name
             THEN <<[name |-> secret.name,
                     secret_name |-> secret.labels.k8r_secret,
                     data_keys |-> secret.data_keys]>> \o rest
             ELSE rest

get_job_secrets(ctx, job_name) == get_job_secrets_from(ctx.secrets, job_name, 1)

----------------------------------------------------------------------------
(* K8sRun.generate_job_name                                                *)

\* the max_length that leaves room for the suffix "-source"
JobNameMaxLength == 55
\* the max_length that leaves room for the prefix "secret-"
VolumeNameMaxLength == 56

\* re.sub(r'[^a-z0-9-]', '-', source.lower()), one character
ReplaceNonNameChar(c) == IF IsAlnum(c) \/ c = "-" THEN c ELSE "-"

RECURSIVE ReplaceNonNameFrom(_, _)
ReplaceNonNameFrom(s, i) ==
    IF i > Len(s) THEN ""
    ELSE ReplaceNonNameChar(CharAt(s, i)) \o ReplaceNonNameFrom(s, i + 1)

\* the base name: --job-name, the working directory for "." and "./", the
\* last path component of a repository or directory, else the lowered source
BaseName(src, kind, job_name) ==
    IF job_name # None /\ job_name # Some("") THEN job_name[1]
    ELSE IF src = "." \/ src = "./" THEN Basename(Cwd)
    ELSE IF detect_source_type(src, kind) = "github"
         THEN ReplaceAll(Basename(src), ".git", "")
    ELSE IF detect_source_type(src, kind) = "directory" THEN Basename(abspath(src))
    ELSE ReplaceNonNameFrom(Lower(src), 1)

\* mutant: an existing Job of the name is never an error
generate_job_name_NoCheck(ctx, src, kind, job_name, allow_existing) ==
    [err |-> IF job_name = None /\ src \notin {".", "./"}
                /\ detect_source_type(src, kind) = "ValueError"
             THEN "ClassificationError" ELSE "",
     name |-> sanitize_k8s_name(BaseName(src, kind, job_name), JobNameMaxLength)]

\* [err, name]: err is "" when the name is returned
generate_job_name(ctx, src, kind, job_name, allow_existing) ==
    LET final_name == sanitize_k8s_name(BaseName(src, kind, job_name), JobNameMaxLength)
    IN  IF (job_name = None \/ job_name = Some("")) /\ src \notin {".", "./"}
           /\ detect_source_type(src, kind) = "ValueError"
        THEN [err |-> "ClassificationError", name |-> ""]
        ELSE IF job_exists(ctx, final_name) /\ ~allow_existing
        THEN [err |-> "AlreadyExists", name |-> final_name]
        ELSE [err |-> "", name |-> final_name]

----------------------------------------------------------------------------
(* Container specifications                                                *)

Mount(n, path, sub_path, read_only) ==
    [name |-> n, mount_path |-> path, sub_path |-> sub_path, read_only |-> read_only]

\* client.V1Container; an absent command, working_dir or resources is None,
\* an absent or empty list of mounts or variables is the empty sequence
Container(image, command, working_dir, volume_mounts) ==
    [name |-> "runner", image |-> image, command |-> command,
     working_dir |-> working_dir, volume_mounts |-> volume_mounts,
     env |-> <<>>, resources |-> None]

DirectoryInitScript ==
    "set -e\ncd /workspace\necho \"Extracting source...\"\n"
    \o "base64 -d /configmap/source.tar.gz | tar -xzf -\n"
    \o "if [ -f k8s-startup.sh ]; then\n    echo \"Running k8s-startup.sh...\"\n"
    \o "    chmod +x k8s-startup.sh\n    ./k8s-startup.sh\nfi"

create_directory_container(configmap_name, command, base_image) ==
    Container(base_image,
              <<"sh", "-c",
                DirectoryInitScript \o "\necho 'Running command...'\n" \o Join(command, " ")>>,
              Some("/workspace"),
              <<Mount("source", "/configmap", None, None)>>)

GithubInitScript(github_url) ==
    "\nset -e\napk add --no-cache git\ncd /workspace\ngit clone " \o github_url \o " .\n"
    \o "if [ -f k8s-startup.sh ]; then\n    echo \"Running k8s-startup.sh...\"\n"
    \o "    chmod +x k8s-startup.sh\n    ./k8s-startup.sh\nfi\n"

create_github_container(github_url, command, base_image) ==
    Container(base_image,
              <<"sh", "-c", GithubInitScript(github_url) \o " && " \o Join(command, " ")>>,
              Some("/workspace"),
              <<>>)

\* mutant: the command words are passed on without the shell wrapper
create_container_container_NoShell(image, command) ==
    Container(image, command, None, <<>>)

create_container_container(image, command) ==
    Container(image,
              IF Len(command) > 0 THEN <<"/bin/sh", "-c", Join(command, " ")>> ELSE None,
              None,
              <<>>)

----------------------------------------------------------------------------
(* Secret binding (src/k8r.py:1163-1210 and 1338-1386)                     *)

\* mutant: the volume name is cut without room for the prefix "secret-"
SecretVolumeName_NoHeadroom(secret_info) ==
    "secret-" \o sanitize_k8s_name(secret_info.secret_name, 63)

SecretVolumeName(secret_info) ==
    "secret-" \o sanitize_k8s_name(secret_info.secret_name, VolumeNameMaxLength)

Volume(n, kind, ref) == [name |-> n, kind |-> kind, ref |-> ref]

RECURSIVE KeyMounts(_, _, _)
\* one read-only mount per data key of one secret
KeyMounts(volume_name, keys, i) ==
    IF i > Len(keys) THEN <<>>
    ELSE <<Mount(volume_name, "/k8r/secrets/" \o keys[i], Some(keys[i]), Some(TRUE))>>
         \o KeyMounts(volume_name, keys, i + 1)

\* mutant: '-' and '.' are dropped
EnvVarName_DropsSeparators(key) == ReplaceAll(ReplaceAll(Upper(key), "-", ""), ".", "")

\* key.upper().replace("-", "_").replace(".", "_")
EnvVarName(key) == ReplaceAll(ReplaceAll(Upper(key), "-", "_"), ".", "_")

RECURSIVE KeyEnvVars(_, _, _)
\* one variable per data key of one secret, read through a secret key reference
KeyEnvVars(secret_k8s_name, keys, i) ==
    IF i > Len(keys) THEN <<>>
    ELSE <<[name |-> EnvVarName(keys[i]), secret_name |-> secret_k8s_name, key |-> keys[i]]>>
         \o KeyEnvVars(secret_k8s_name, keys, i + 1)

RECURSIVE SecretVolumes(_, _)
SecretVolumes(job_secrets, i) ==
    IF i > Len(job_secrets) THEN <<>>
    ELSE <<Volume(SecretVolumeName(job_secrets[i]), "secret", job_secrets[i].name)>>
         \o SecretVolumes(job_secrets, i + 1)

RECURSIVE SecretVolumeMounts(_, _)
SecretVolumeMounts(job_secrets, i) ==
    IF i > Len(job_secrets) THEN <<>>
    ELSE KeyMounts(SecretVolumeName(job_secrets[i]), job_secrets[i].data_keys, 1)
         \o SecretVolumeMounts(job_secrets, i + 1)

RECURSIVE SecretEnvVars(_, _)
SecretEnvVars(job_secrets, i) ==
    IF i > Len(job_secrets) THEN <<>>
    ELSE KeyEnvVars(job_secrets[i].name, job_secrets[i].data_keys, 1)
         \o SecretEnvVars(job_secrets, i + 1)

\* mutant: the mounts of the secrets are appended a second time
BindSecrets_MountTwice(container, job_secrets) ==
    [container EXCEPT
        !.volume_mounts = @ \o SecretVolumeMounts(job_secrets, 1)
                            \o SecretVolumeMounts(job_secrets, 1),
        !.env = @ \o SecretEnvVars(job_secrets, 1)]

\* the container with the mounts and variables of the secrets appended
BindSecrets(container, job_secrets) ==
    [container EXCEPT
        !.volume_mounts = @ \o SecretVolumeMounts(job_secrets, 1),
        !.env = @ \o SecretEnvVars(job_secrets, 1)]

\* the container with client.V1ResourceRequirements when --mem or --cpu is given
WithResources(container, memory, cpu) ==
    LET memory_spec == parse_resource_spec(memory)
        cpu_spec == parse_resource_spec(cpu)
    IN  IF memory_spec = None /\ cpu_spec = None THEN container
        ELSE [container EXCEPT !.resources = Some(
                [requests |-> [memory |-> IF memory_spec = None THEN None
                                          ELSE Some(memory_spec[1]),
                               cpu |-> IF cpu_spec = None THEN None ELSE Some(cpu_spec[1])],
                 limits |-> [memory |-> IF memory_spec = None THEN None
                                        ELSE Some(memory_spec[2]),
                             cpu |-> IF cpu_spec = None THEN None ELSE Some(cpu_spec[2])]])]

----------------------------------------------------------------------------
(* Platform calls of the run command                                       *)
(*                                                                         *)
(* ctx is the platform as one invocation sees and changes it, with the log *)
(* of the mutating calls and image builds the invocation has issued.       *)

\* K8R_REGISTRY and K8R_PROJECT are not set
Registry == "gcr.io"
Project == "default-project"

\* the base64 tar.gz of the directory tree at source_path
Archive(source_path) == [tar_gz_of |-> abspath(source_path)]

\* K8sRun.create_directory_configmap: create, and replace on 409
create_directory_configmap(ctx, source_path, job_name) ==
    LET configmap_name == job_name \o "-source"
        configmap == [source_tar_gz |-> Archive(source_path)]
        created == Log(ctx, "create_namespaced_config_map", configmap_name)
    IN  IF configmap_name \in DOMAIN ctx.configmaps
        THEN [Log(created, "replace_namespaced_config_map", configmap_name)
                EXCEPT !.configmaps = With(@, configmap_name, configmap)]
        ELSE [created EXCEPT !.configmaps = With(@, configmap_name, configmap)]

\* K8sRun.build_and_push_dockerfile: [ctx, err, image_name]; pushed tells
\* whether the build and the push went through
build_and_push_dockerfile(ctx, dockerfile_path, job_name, pushed) ==
    LET image_name == Registry \o "/" \o Project \o "/" \o job_name \o ":latest"
        built == Log(ctx, "docker_build", image_name)
    IN  IF pushed
        THEN [ctx |-> [Log(built, "docker_push", image_name)
                          EXCEPT !.images = @ \cup {image_name}],
              err |-> "", image_name |-> image_name]
        ELSE [ctx |-> built, err |-> "BuildError", image_name |-> ""]

\* what a creation returns: the platform, the exception raised ("" for
\* none), the workload name, and the object printed as YAML (None for none)
Raised(ctx, err) == [ctx |-> ctx, err |-> err, name |-> "", emitted |-> None]

\* the container of the source and the volumes it needs
\* (src/k8r.py:1113-1137 and 1296-1320): [ctx, err, container, volumes]
SourceContainer(ctx, a, source_type, final_name, show_yaml, pushed) ==
    IF source_type = "directory"
    THEN LET configmap_name == final_name \o "-source"
         IN  [ctx |-> IF show_yaml THEN ctx
                      ELSE create_directory_configmap(ctx, a.source, final_name),
              err |-> "",
              container |-> create_directory_container(configmap_name, a.command,
                                                       a.base_image),
              volumes |-> <<Volume("source", "config_map", configmap_name)>>]
    ELSE IF source_type = "github"
    THEN [ctx |-> ctx, err |-> "",
          container |-> create_github_container(a.source, a.command, a.base_image),
          volumes |-> <<>>]
    ELSE IF source_type = "dockerfile"
    THEN IF show_yaml
         THEN [ctx |-> ctx, err |-> "",
               container |-> create_container_container(
                                 "registry/project/" \o final_name \o ":latest", a.command),
               volumes |-> <<>>]
         ELSE LET b == build_and_push_dockerfile(ctx, a.source, final_name, pushed)
              IN  [ctx |-> b.ctx, err |-> b.err,
                   container |-> create_container_container(b.image_name, a.command),
                   volumes |-> <<>>]
    ELSE [ctx |-> ctx, err |-> "",
          container |-> create_container_container(a.source, a.command),
          volumes |-> <<>>]

\* mutant: every Job is told to restart on failure
RestartPolicy_AlwaysOnFailure(retry_limit) == "OnFailure"

\* "OnFailure" if retry_limit is not None else "Never"
RestartPolicy(retry_limit) == IF retry_limit # None THEN "OnFailure" ELSE "Never"

\* retry_limit when given, else 0
BackoffLimit(retry_limit) == IF retry_limit # None THEN retry_limit[1] ELSE 0

\* client.V1Job with its V1JobSpec and pod template
JobObject(final_name, source_type, container, volumes, a, timeout_seconds) ==
    [kind |-> "Job",
     name |-> final_name,
     labels |-> [created_by |-> "k8r", k8r_source_type |-> source_type],
     pod_labels |-> [created_by |-> "k8r", k8r_job |-> final_name],
     containers |-> <<container>>,
     volumes |-> volumes,
     restart_policy |-> RestartPolicy(a.retry_limit),
     backoff_limit |-> BackoffLimit(a.retry_limit),
     parallelism |-> a.num_instances,
     completions |-> a.num_instances,
     active_deadline_seconds |-> timeout_seconds]

\* client.V1Deployment with its selector and pod template
DeploymentObject(final_name, source_type, container, volumes, a) ==
    [kind |-> "Deployment",
     name |-> final_name,
     labels |-> [created_by |-> "k8r", k8r_source_type |-> source_type,
                 k8r_type |-> "deployment"],
     selector |-> [created_by |-> "k8r", k8r_deployment |-> final_name],
     pod_labels |-> [created_by |-> "k8r", k8r_deployment |-> final_name],
     containers |-> <<container>>,
     volumes |-> volumes,
     replicas |-> a.num_instances]

\* secret_job_name if secret_job_name else final_job_name
SecretsLookupName(a, final_name) ==
    IF a.secret_job_name # None /\ a.secret_job_name # Some("")
    THEN a.secret_job_name[1] ELSE final_name

\* batch_v1.create_namespaced_job: 409 when a Job of the name exists
create_namespaced_job(ctx, job) ==
    LET called == Log(ctx, "create_namespaced_job", job.name)
    IN  IF job.name \in DOMAIN ctx.jobs
        THEN Raised(called, "ApiException409")
        ELSE [ctx |-> [called EXCEPT !.jobs = With(@, job.name, job)],
              err |-> "", name |-> job.name, emitted |-> None]

\* apps_v1.create_namespaced_deployment: 409 when one of the name exists
create_namespaced_deployment(ctx, deployment) ==
    LET called == Log(ctx, "create_namespaced_deployment", deployment.name)
    IN  IF deployment.name \in DOMAIN ctx.deployments
        THEN Raised(called, "ApiException409")
        ELSE [ctx |-> [called EXCEPT !.deployments = With(@, deployment.name, deployment)],
              err |-> "", name |-> deployment.name, emitted |-> None]

----------------------------------------------------------------------------
(* Workload creation                                                       *)

\* mutant: the Job is submitted in dry-run mode too
create_job_with_yaml_option_AlwaysApply(ctx, a, show_yaml, allow_existing, pushed) ==
    LET source_type == detect_source_type(a.source, a.path_kind)
        g == generate_job_name(ctx, a.source, a.path_kind, a.job_name, allow_existing)
        timeout_seconds == parse_timeout(a.timeout)
        c == SourceContainer(ctx, a, source_type, g.name, show_yaml, pushed)
        job_secrets == get_job_secrets(c.ctx, SecretsLookupName(a, g.name))
        container == WithResources(BindSecrets(c.container, job_secrets), a.memory, a.cpu)
        job == JobObject(g.name, source_type, container,
                         c.volumes \o SecretVolumes(job_secrets, 1), a, timeout_seconds)
    IN  IF source_type = "ValueError" THEN Raised(ctx, "ClassificationError")
        ELSE IF g.err # "" THEN Raised(ctx, g.err)
        ELSE IF timeout_seconds < 0 THEN Raised(ctx, "ValueError")
        ELSE IF c.err # "" THEN Raised(c.ctx, c.err)
        ELSE create_namespaced_job(c.ctx, job)

\* K8sRun.create_job_with_yaml_option
create_job_with_yaml_option(ctx, a, show_yaml, allow_existing, pushed) ==
    LET source_type == detect_source_type(a.source, a.path_kind)
        g == generate_job_name(ctx, a.source, a.path_kind, a.job_name, allow_existing)
        timeout_seconds == parse_timeout(a.timeout)
        c == SourceContainer(ctx, a, source_type, g.name, show_yaml, pushed)
        job_secrets == get_job_secrets(c.ctx, SecretsLookupName(a, g.name))
        container == WithResources(BindSecrets(c.container, job_secrets), a.memory, a.cpu)
        job == JobObject(g.name, source_type, container,
                         c.volumes \o SecretVolumes(job_secrets, 1), a, timeout_seconds)
    IN  IF source_type = "ValueError" THEN Raised(ctx, "ClassificationError")
        ELSE IF g.err # "" THEN Raised(ctx, g.err)
        ELSE IF timeout_seconds < 0 THEN Raised(ctx, "ValueError")
        ELSE IF c.err # "" THEN Raised(c.ctx, c.err)
        ELSE IF show_yaml
        THEN [ctx |-> c.ctx, err |-> "", name |-> g.name, emitted |-> Some(job)]
        ELSE create_namespaced_job(c.ctx, job)

\* K8sRun.create_job: no dry run, no resources, an existing Job is an error
create_job(ctx, a, pushed) ==
    LET source_type == detect_source_type(a.source, a.path_kind)
        g == generate_job_name(ctx, a.source, a.path_kind, a.job_name, FALSE)
        timeout_seconds == parse_timeout(a.timeout)
        c == SourceContainer(ctx, a, source_type, g.name, FALSE, pushed)
        job_secrets == get_job_secrets(c.ctx, SecretsLookupName(a, g.name))
        job == JobObject(g.name, source_type, BindSecrets(c.container, job_secrets),
                         c.volumes \o SecretVolumes(job_secrets, 1), a, timeout_seconds)
    IN  IF source_type = "ValueError" THEN Raised(ctx, "ClassificationError")
        ELSE IF g.err # "" THEN Raised(ctx, g.err)
        ELSE IF timeout_seconds < 0 THEN Raised(ctx, "ValueError")
        ELSE IF c.err # "" THEN Raised(c.ctx, c.err)
        ELSE create_namespaced_job(c.ctx, job)

\* K8sRun.create_deployment: the name check is that of a Job, never allowed
\* to exist; the timeout is not parsed
create_deployment(ctx, a, show_yaml, pushed) ==
    LET source_type == detect_source_type(a.source, a.path_kind)
        g == generate_job_name(ctx, a.source, a.path_kind, a.job_name, FALSE)
        c == SourceContainer(ctx, a, source_type, g.name, show_yaml, pushed)
        job_secrets == get_job_secrets(c.ctx, SecretsLookupName(a, g.name))
        container == WithResources(BindSecrets(c.container, job_secrets), a.memory, a.cpu)
        deployment == DeploymentObject(g.name, source_type, container,
                                       c.volumes \o SecretVolumes(job_secrets, 1), a)
    IN  IF source_type = "ValueError" THEN Raised(ctx, "ClassificationError")
        ELSE IF g.err # "" THEN Raised(ctx, g.err)
        ELSE IF c.err # "" THEN Raised(c.ctx, c.err)
        ELSE IF show_yaml
        THEN [ctx |-> c.ctx, err |-> "", name |-> g.name, emitted |-> Some(deployment)]
        ELSE create_namespaced_deployment(c.ctx, deployment)

----------------------------------------------------------------------------
(* K8sRun.delete_job and K8sRun.run_job_with_options                       *)

RECURSIVE delete_job_secrets_from(_, _, _)
\* K8sRun.delete_job_secrets: one delete per secret labelled for the job
delete_job_secrets_from(ctx, job_name, i) ==
    IF i > Len(ctx.secrets) THEN ctx
    ELSE LET secret == ctx.secrets[i]
         IN  IF secret.labels.created_by = "k8r" /\ secret.labels.k8r_job = job_name
             THEN delete_job_secrets_from(
                      [Log(ctx, "delete_namespaced_secret", secret.name)
                          EXCEPT !.secrets = SubSeq(@, 1, i - 1) \o SubSeq(@, i + 1, Len(@))],
                      job_name, i)
             ELSE delete_job_secrets_from(ctx, job_name, i + 1)

\* the pods of the workload that are in phase Running
RunningPods(ctx, selector_label, job_name) ==
    {pod \in ctx.pods : /\ pod.labels.created_by = "k8r"
                        /\ selector_label \in DOMAIN pod.labels
                        /\ pod.labels[selector_label] = job_name
                        /\ pod.phase = "Running"}

\* mutant: every object passes for one that k8r created
CreatedByK8r_Anything(object) == "labels" \in DOMAIN object

\* metadata.labels and metadata.labels.get("created-by") == "k8r"
CreatedByK8r(object) ==
    "created_by" \in DOMAIN object.labels /\ object.labels.created_by = "k8r"

\* mutant: running pods do not hold the deletion back
delete_job_IgnoresRunningPods(ctx, job_name, force, rm_secrets) ==
    LET is_job == /\ job_name \in DOMAIN ctx.jobs
                  /\ CreatedByK8r(ctx.jobs[job_name])
        is_deployment == /\ ~is_job
                         /\ job_name \in DOMAIN ctx.deployments
                         /\ CreatedByK8r(ctx.deployments[job_name])
        running_pods == RunningPods(ctx, IF is_job THEN "k8r_job" ELSE "k8r_deployment",
                                    job_name)
        deleted == IF is_job
                   THEN [Log(ctx, "delete_namespaced_job", job_name)
                            EXCEPT !.jobs = Without(@, job_name)]
                   ELSE [Log(ctx, "delete_namespaced_deployment", job_name)
                            EXCEPT !.deployments = Without(@, job_name)]
        cleaned == [Log(deleted, "delete_namespaced_config_map", job_name \o "-source")
                       EXCEPT !.configmaps = Without(@, job_name \o "-source")]
    IN  IF ~is_job /\ ~is_deployment THEN ctx
        ELSE IF running_pods # {} /\ ~force /\ ~rm_secrets THEN ctx
        ELSE IF rm_secrets THEN delete_job_secrets_from(cleaned, job_name, 1)
        ELSE cleaned

\* K8sRun.delete_job: the ctx after it
delete_job(ctx, job_name, force, rm_secrets) ==
    LET is_job == /\ job_name \in DOMAIN ctx.jobs
                  /\ CreatedByK8r(ctx.jobs[job_name])
        is_deployment == /\ ~is_job
                         /\ job_name \in DOMAIN ctx.deployments
                         /\ CreatedByK8r(ctx.deployments[job_name])
        running_pods == RunningPods(ctx, IF is_job THEN "k8r_job" ELSE "k8r_deployment",
                                    job_name)
        deleted == IF is_job
                   THEN [Log(ctx, "delete_namespaced_job", job_name)
                            EXCEPT !.jobs = Without(@, job_name)]
                   ELSE [Log(ctx, "delete_namespaced_deployment", job_name)
                            EXCEPT !.deployments = Without(@, job_name)]
        cleaned == [Log(deleted, "delete_namespaced_config_map", job_name \o "-source")
                       EXCEPT !.configmaps = Without(@, job_name \o "-source")]
    IN  IF ~is_job /\ ~is_deployment THEN ctx
        ELSE IF running_pods # {} /\ ~force THEN ctx
        ELSE IF rm_secrets THEN delete_job_secrets_from(cleaned, job_name, 1)
        ELSE cleaned

\* the --rm step of run_job_with_options (src/k8r.py:1071-1078): [ctx, err]
RemoveExisting(ctx, a) ==
    LET temp == generate_job_name(ctx, a.source, a.path_kind, a.job_name, TRUE)
    IN  IF detect_source_type(a.source, a.path_kind) = "ValueError"
        THEN [ctx |-> ctx, err |-> "ClassificationError"]
        ELSE IF job_exists(ctx, temp.name)
        THEN [ctx |-> delete_job(ctx, temp.name, TRUE, FALSE), err |-> ""]
        ELSE [ctx |-> ctx, err |-> ""]

\* mutant: --rm removes the existing Job in dry-run mode too
run_job_with_options_RmInDryRun(ctx, a, show_yaml, as_deployment, rm_existing, pushed) ==
    LET removed == IF rm_existing THEN RemoveExisting(ctx, a)
                   ELSE [ctx |-> ctx, err |-> ""]
    IN  IF removed.err # "" THEN Raised(removed.ctx, removed.err)
        ELSE IF as_deployment THEN create_deployment(removed.ctx, a, show_yaml, pushed)
        ELSE create_job_with_yaml_option(removed.ctx, a, show_yaml, rm_existing, pushed)

\* K8sRun.run_job_with_options, up to the start of the monitor
run_job_with_options(ctx, a, show_yaml, as_deployment, rm_existing, pushed) ==
    LET removed == IF rm_existing /\ ~show_yaml THEN RemoveExisting(ctx, a)
                   ELSE [ctx |-> ctx, err |-> ""]
    IN  IF removed.err # "" THEN Raised(removed.ctx, removed.err)
        ELSE IF as_deployment THEN create_deployment(removed.ctx, a, show_yaml, pushed)
        ELSE create_job_with_yaml_option(removed.ctx, a, show_yaml, rm_existing, pushed)

\* main: the words after "--", or the stand-in command when there are none
MainCommand(command_args) ==
    IF Len(command_args) > 0 THEN command_args ELSE <<"echo", "No command specified">>

----------------------------------------------------------------------------
(* Inputs                                                                  *)

\* longest raw name tried
MaxNameLen == 4
\* largest max_length tried
MaxMaxLength == 4

\* a lower-case letter, an upper-case letter, a digit, the two separators
\* and a character outside [a-z0-9.-]
NameAlphabet == {"a", "B", "7", "-", ".", "_"}

RECURSIVE StringsOfLen(_, _)
StringsOfLen(A, n) ==
    IF n = 0 THEN {""} ELSE {s \o c : s \in StringsOfLen(A, n - 1), c \in A}

StringsUpTo(A, n) == UNION {StringsOfLen(A, k) : k \in 0..n}

\* longest resource string enumerated
MaxSpecLen == 5

\* a digit, the letters of the suffixes gb / mb / m / g, the range hyphen
\* and a blank
SpecAlphabet == {"8", "g", "m", "b", "-", " "}

\* the resource strings of the docstring and of the --mem / --cpu help
ExampleSpecs ==
    {"8gb", "2gb-8gb", "1000m", "500m-2000m", "1", "0.5-2", "512mb", "2G", "4Gi"}

\* locations: a head, a middle and a tail, each possibly empty
LocationHeads ==
    {"", "git@github.com:", "https://github.com/", "http://github.com/",
     "https://gitlab.com/", "./", "app"}
LocationMiddles == {"", "u/repo", "redis:7.0", "a:b/"}
LocationTails == {"", "Dockerfile", "Dockerfile.dev", ".git"}

Locations ==
    {h \o mid \o t : h \in LocationHeads, mid \in LocationMiddles, t \in LocationTails}

\* the sources of the run command, each with what its path is on disk
Sources ==
    {[source |-> "app", path_kind |-> "dir"],
     [source |-> "https://github.com/u/repo.git", path_kind |-> "absent"],
     [source |-> "Dockerfile", path_kind |-> "file"],
     [source |-> "redis:7.0", path_kind |-> "absent"],
     [source |-> "nothing", path_kind |-> "absent"]}

\* the words after "--"
CommandArgs == {<<>>, <<"redis-server", "--version">>}
\* --job-name
JobNames == {None, Some("App")}
\* largest --retry tried
MaxRetry == 1
\* --retry
RetryLimits == {None} \cup {Some(n) : n \in 0..MaxRetry}
\* --secret-job
SecretJobNames == {None, Some("shared")}
\* --mem and --cpu
Resources ==
    {[memory |-> None, cpu |-> None],
     [memory |-> Some("2gb-8gb"), cpu |-> Some("500m")]}

ArgSets ==
    {[source |-> s.source, path_kind |-> s.path_kind, command_args |-> c,
      job_name |-> j, retry_limit |-> r, secret_job_name |-> sj,
      memory |-> res.memory, cpu |-> res.cpu,
      num_instances |-> 1, timeout |-> "1h", base_image |-> "alpine:latest"] :
        s \in Sources, c \in CommandArgs, j \in JobNames, r \in RetryLimits,
        sj \in SecretJobNames, res \in Resources}

\* the default max_length of sanitize_k8s_name and the limit of a full
\* secret name; the length a job name too long for that limit is cut to
NameMaxLength == 63
LongJobNameMaxLength == 50

\* the names that create_secret_with_options derives (src/k8r.py:976-989)
\* for --job-name job_name (or None) in the working directory cwd
SecretNames(secret_name, job_name, cwd) ==
    LET original_job_name == Basename(cwd)
        given == IF job_name # None /\ job_name # Some("") THEN job_name[1]
                 ELSE original_job_name
        sanitized_once == sanitize_k8s_name(secret_name, NameMaxLength)
        room == NameMaxLength - Len(given) - 1
        effective_job_name == IF room <= 0
                              THEN sanitize_k8s_name(given, LongJobNameMaxLength)
                              ELSE given
        max_secret_name_length == NameMaxLength - Len(effective_job_name) - 1
        sanitized_secret_name ==
            IF Len(sanitized_once) > max_secret_name_length
            THEN sanitize_k8s_name(sanitized_once, max_secret_name_length)
            ELSE sanitized_once
    IN  [effective_job_name |-> effective_job_name,
         sanitized_secret_name |-> sanitized_secret_name,
         full_secret_name |-> effective_job_name \o "-" \o sanitized_secret_name]

\* the V1Secret that create_secret_with_options writes (src/k8r.py:1024-1035)
SecretObject(names, secret_name, data_keys) ==
    [name |-> names.full_secret_name,
     labels |-> [created_by |-> "k8r", k8r_job |-> names.effective_job_name,
                 k8r_secret |-> secret_name],
     data_keys |-> data_keys]

\* a secret as create_secret_with_options writes it for the job
Secret(job_name, secret_name, data_keys) ==
    SecretObject(SecretNames(secret_name, Some(job_name), Cwd), secret_name, data_keys)

\* two secrets made from directories of two files each
TwoSecrets(job_name) ==
    <<Secret(job_name, "db", <<"user", "pass.txt">>),
      Secret(job_name, "TLS", <<"tls.crt", "tls-key">>)>>

\* the secrets in the namespace when the user starts
SecretLists ==
    {<<>>,
     <<Secret("app", "token", <<"token">>)>>,
     TwoSecrets("app"),
     TwoSecrets("shared") \o <<Secret("app", "token", <<"token">>)>>}

\* a Job that another tool put into the namespace: it has no created-by label
ForeignJob(job_name) == [kind |-> "Job", name |-> job_name, labels |-> [app |-> "batch"]]

\* the Jobs in the namespace when the user starts
JobLists == {NoObjects, With(NoObjects, "app", ForeignJob("app"))}

\* an invocation's view of the platform, with an empty call log; and back
Ctx(p) ==
    [jobs |-> p.jobs, deployments |-> p.deployments, configmaps |-> p.configmaps,
     secrets |-> p.secrets, pods |-> p.pods, images |-> p.images, calls |-> <<>>]
Platform(ctx) ==
    [jobs |-> ctx.jobs, deployments |-> ctx.deployments, configmaps |-> ctx.configmaps,
     secrets |-> ctx.secrets, pods |-> ctx.pods, images |-> ctx.images]

\* the arguments main passes to run_job_with_options (src/k8r.py:1728-1745)
RunArgs(argv) ==
    [source |-> argv.source, path_kind |-> argv.path_kind,
     command |-> MainCommand(argv.command_args),
     job_name |-> argv.job_name, retry_limit |-> argv.retry_limit,
     secret_job_name |-> argv.secret_job_name, memory |-> argv.memory, cpu |-> argv.cpu,
     num_instances |-> argv.num_instances, timeout |-> argv.timeout,
     base_image |-> argv.base_image]

\* the arguments of a direct call of create_job: the command as given
CreateJobArgs(argv) == [RunArgs(argv) EXCEPT !.command = argv.command_args]

NoInvocation ==
    [op |-> "none", show_yaml |-> FALSE, as_deployment |-> FALSE, rm_existing |-> FALSE,
     err |-> "", name |-> "", emitted |-> None, calls |-> <<>>, changed |-> FALSE]

RunIdle ==
    /\ args = None
    /\ platform = None
    /\ last = None
    /\ runs = None

SanitizeIdle ==
    /\ raw_name = ""
    /\ max_length = 0
    /\ sanitized = ""
    /\ resanitized = ""

ParseIdle ==
    /\ resource_spec = None
    /\ parsed = None

DetectIdle ==
    /\ location = ""
    /\ path_kind = "absent"
    /\ detected = ""

MonitorIdle ==
    /\ job_status = None
    /\ monitor = None

NamingIdle ==
    /\ naming_in = None
    /\ naming_out = None

----------------------------------------------------------------------------
(* Specification of the name sanitizer                                     *)

InitSanitize ==
    /\ pc = "start"
    /\ raw_name \in StringsUpTo(NameAlphabet, MaxNameLen)
    /\ max_length \in 0..MaxMaxLength
    /\ sanitized = ""
    /\ resanitized = ""
    /\ ParseIdle
    /\ DetectIdle
    /\ RunIdle
    /\ MonitorIdle
    /\ NamingIdle

Sanitize ==
    /\ pc = "start"
    /\ sanitized' = sanitize_k8s_name(raw_name, max_length)
    /\ pc' = "sanitized"
    /\ UNCHANGED <<raw_name, max_length, resanitized, parseVars, detectVars, runVars,
                   monitorVars, namingVars>>

Resanitize ==
    /\ pc = "sanitized"
    /\ resanitized' = sanitize_k8s_name(sanitized, max_length)
    /\ pc' = "resanitized"
    /\ UNCHANGED <<raw_name, max_length, sanitized, parseVars, detectVars, runVars,
                   monitorVars, namingVars>>

NextSanitize == Sanitize \/ Resanitize

SpecSanitize == InitSanitize /\ [][NextSanitize]_vars

----------------------------------------------------------------------------
(* Specification of the resource-quantity parser                           *)

InitParse ==
    /\ pc = "start"
    /\ resource_spec \in
          {None} \cup {Some(s) : s \in StringsUpTo(SpecAlphabet, MaxSpecLen)
                                         \cup ExampleSpecs}
    /\ parsed = None
    /\ SanitizeIdle
    /\ DetectIdle
    /\ RunIdle
    /\ MonitorIdle
    /\ NamingIdle

ParseResourceSpec ==
    /\ pc = "start"
    /\ parsed' = parse_resource_spec(resource_spec)
    /\ pc' = "parsed"
    /\ UNCHANGED <<resource_spec, sanitizeVars, detectVars, runVars, monitorVars, namingVars>>

NextParse == ParseResourceSpec

SpecParse == InitParse /\ [][NextParse]_vars

----------------------------------------------------------------------------
(* Specification of the source classifier                                  *)

\* the empty path names nothing
InitDetect ==
    /\ pc = "start"
    /\ location \in Locations
    /\ path_kind \in PathKinds
    /\ location = "" => path_kind = "absent"
    /\ detected = ""
    /\ SanitizeIdle
    /\ ParseIdle
    /\ RunIdle
    /\ MonitorIdle
    /\ NamingIdle

DetectSourceType ==
    /\ pc = "start"
    /\ detected' = detect_source_type(location, path_kind)
    /\ pc' = "detected"
    /\ UNCHANGED <<location, path_kind, sanitizeVars, parseVars, runVars, monitorVars, namingVars>>

NextDetect == DetectSourceType

SpecDetect == InitDetect /\ [][NextDetect]_vars

----------------------------------------------------------------------------
(* Specification of the run command: the user issues one command line,     *)
(* each time with any of the flags --show-yaml, --as-deployment and --rm,  *)
(* against a namespace that starts with some secrets and with no workload  *)
(* or with a Job of another tool.                                          *)

Init ==
    /\ pc = "shell"
    /\ args \in ArgSets
    /\ \E secrets \in SecretLists, jobs \in JobLists :
          platform = [jobs |-> jobs, deployments |-> NoObjects,
                      configmaps |-> NoObjects, secrets |-> secrets,
                      pods |-> {}, images |-> {}]
    /\ last = NoInvocation
    /\ runs = None
    /\ SanitizeIdle
    /\ ParseIdle
    /\ DetectIdle
    /\ MonitorIdle
    /\ NamingIdle

\* whether the image build and push go through: open only when there is a
\* Dockerfile to build
BuildOutcomes(argv) ==
    IF detect_source_type(argv.source, argv.path_kind) = "dockerfile"
    THEN BOOLEAN ELSE {TRUE}

\* what an invocation leaves behind
Invocation(op, show_yaml, as_deployment, rm_existing, r) ==
    [op |-> op, show_yaml |-> show_yaml, as_deployment |-> as_deployment,
     rm_existing |-> rm_existing, err |-> r.err, name |-> r.name,
     emitted |-> r.emitted, calls |-> r.ctx.calls,
     changed |-> Platform(r.ctx) # platform]

\* k8r run <source> [flags] [-- command]
Run ==
    \E show_yaml, as_deployment, rm_existing \in BOOLEAN, pushed \in BuildOutcomes(args) :
        \E r \in {run_job_with_options(Ctx(platform), RunArgs(args), show_yaml,
                                       as_deployment, rm_existing, pushed)} :
            /\ platform' = Platform(r.ctx)
            /\ last' = Invocation("run", show_yaml, as_deployment, rm_existing, r)
            /\ UNCHANGED <<pc, args, runs, sanitizeVars, parseVars, detectVars, monitorVars,
                           namingVars>>

\* a direct call of K8sRun.create_job
CreateJob ==
    \E pushed \in BuildOutcomes(args) :
        \E r \in {create_job(Ctx(platform), CreateJobArgs(args), pushed)} :
            /\ platform' = Platform(r.ctx)
            /\ last' = Invocation("create_job", FALSE, FALSE, FALSE, r)
            /\ UNCHANGED <<pc, args, runs, sanitizeVars, parseVars, detectVars, monitorVars,
                           namingVars>>

Next == Run \/ CreateJob

Spec == Init /\ [][Next]_vars

----------------------------------------------------------------------------
(* K8sRun.monitor_job and K8sRun.monitor_job_with_logs, as the run command *)
(* starts them after it has created the Job (src/k8r.py:1095-1099)         *)

\* job.status: the three counts (None read as 0) and whether
\* completion_time is set
Status(active, succeeded, failed, completion_time) ==
    [active |-> active, succeeded |-> succeeded, failed |-> failed,
     completion_time |-> completion_time]

\* the Job controller: pending, active, then succeeded or failed; a failed
\* pod is retried while the backoff limit allows it
NextStatuses(status, backoff_limit) ==
    IF status = Status(0, 0, 0, FALSE) THEN {Status(1, 0, 0, FALSE)}
    ELSE IF status = Status(1, 0, 0, FALSE)
    THEN {Status(0, 1, 0, TRUE), Status(0, 0, 1, FALSE)}
         \cup (IF backoff_limit > 0 THEN {Status(1, 0, 1, FALSE)} ELSE {})
    ELSE IF status = Status(1, 0, 1, FALSE)
    THEN {Status(0, 1, 1, TRUE), Status(0, 0, 2, FALSE)}
    ELSE {}

\* a pod of the Job job_name, with the labels of the Job's pod template;
\* lines counts the log lines it has written
Pod(pod_name, job_name, phase) ==
    [name |-> pod_name, labels |-> [created_by |-> "k8r", k8r_job |-> job_name],
     phase |-> phase, lines |-> 0]

\* the kubelet: Pending, Running, then Succeeded or Failed
NextPhases(phase) ==
    IF phase = "Pending" THEN {"Running"}
    ELSE IF phase = "Running" THEN {"Succeeded", "Failed"}
    ELSE {}

\* core_v1.list_namespaced_pod(label_selector="k8r-job=<job_name>,created-by=k8r")
list_namespaced_pod(p, job_name) ==
    {pod \in p.pods : /\ pod.labels.created_by = "k8r"
                      /\ pod.labels.k8r_job = job_name}

\* the HTTP status of a failed API call; 0 when the call answers
ApiFaults == {0, 404, 500}

\* which monitor run_job_with_options starts
MonitorMode(follow, detach) ==
    IF follow /\ ~detach THEN "logs" ELSE IF detach THEN "detached" ELSE "plain"

\* the monitor on entry: nothing polled, followed_pods and log_threads
\* empty, stop_event clear.  observed, printed (the lines printed of each
\* followed pod), starts, skipped, api_calls and exit record what the
\* monitor did; exit_code is that of the process
NewMonitor(job_name, follow, detach) ==
    [job_name |-> job_name, mode |-> MonitorMode(follow, detach), pc |-> "start",
     polls |-> 0, observed |-> <<>>, followed |-> {}, threads |-> NoObjects,
     stop_event |-> FALSE, printed |-> NoObjects, starts |-> NoObjects, skipped |-> {},
     api_calls |-> {},
     exit |-> "", error_status |-> 0, exit_code |-> None]

\* monitor_job returns, run_job_with_options and main return after it and
\* the process ends with status 0
MonitorReturns(m) == [m EXCEPT !.pc = "done", !.exit_code = Some(0)]

\* the loop is left (break, or KeyboardInterrupt): monitor_job returns,
\* monitor_job_with_logs enters its finally block
LoopEnds(m, why, status) ==
    LET left == [m EXCEPT !.exit = why, !.error_status = status]
    IN  IF m.mode = "logs" THEN [left EXCEPT !.pc = "finally"] ELSE MonitorReturns(left)

\* mutant: only a completion time ends the monitor
IsTerminal_CompletionOnly(status) == status.completion_time

\* status.completion_time, or status.failed and status.failed > 0
IsTerminal(status) == status.completion_time \/ status.failed > 0

\* mutant: the break after the report of the outcome is missing
monitor_job_tick_NoBreak(m, status, read_fault) ==
    LET read == [m EXCEPT !.polls = @ + 1, !.api_calls = @ \cup {"read_namespaced_job"}]
        seen == [read EXCEPT !.observed = Append(@, status)]
    IN  IF read_fault # 0 THEN LoopEnds(read, "error", read_fault)
        ELSE [seen EXCEPT !.pc = "sleep"]

\* one pass of the loop of monitor_job; read_fault is the failure of
\* read_namespaced_job
monitor_job_tick(m, status, read_fault) ==
    LET read == [m EXCEPT !.polls = @ + 1, !.api_calls = @ \cup {"read_namespaced_job"}]
        seen == [read EXCEPT !.observed = Append(@, status)]
    IN  IF read_fault # 0 THEN LoopEnds(read, "error", read_fault)
        ELSE IF IsTerminal(status) THEN LoopEnds(seen, "terminal", 0)
        ELSE [seen EXCEPT !.pc = "sleep"]

\* mutant: a log task is started for every pod not yet followed
FollowNewPods_AnyPhase(m, pods) ==
    LET new == {pod \in pods : pod.name \notin m.followed}
        names == {pod.name : pod \in new}
        PhaseOf(n) == (CHOOSE pod \in new : pod.name = n).phase
    IN  [m EXCEPT
            !.followed = @ \cup names,
            !.threads = [n \in DOMAIN m.threads \cup names |->
                            IF n \in names THEN "reading" ELSE m.threads[n]],
            !.printed = [n \in DOMAIN m.printed \cup names |->
                            IF n \in DOMAIN m.printed THEN m.printed[n] ELSE 0],
            !.starts = [n \in DOMAIN m.starts \cup names |->
                           IF n \notin names THEN m.starts[n]
                           ELSE Append(IF n \in DOMAIN m.starts THEN m.starts[n] ELSE <<>>,
                                       PhaseOf(n))],
            !.api_calls = @ \cup (IF new # {} THEN {"read_namespaced_pod_log"} ELSE {})]

\* the loop over pods.items (src/k8r.py:564-577): a thread running
\* follow_pod_logs is started for each pod that is not followed yet and is
\* Running, Succeeded or Failed; the thread opens the log stream and reads
FollowNewPods(m, pods) ==
    LET new == {pod \in pods : /\ pod.name \notin m.followed
                               /\ pod.phase \in {"Running", "Succeeded", "Failed"}}
        names == {pod.name : pod \in new}
        PhaseOf(n) == (CHOOSE pod \in new : pod.name = n).phase
    IN  [m EXCEPT
            !.followed = @ \cup names,
            !.threads = [n \in DOMAIN m.threads \cup names |->
                            IF n \in names THEN "reading" ELSE m.threads[n]],
            !.printed = [n \in DOMAIN m.printed \cup names |->
                            IF n \in DOMAIN m.printed THEN m.printed[n] ELSE 0],
            !.starts = [n \in DOMAIN m.starts \cup names |->
                           IF n \notin names THEN m.starts[n]
                           ELSE Append(IF n \in DOMAIN m.starts THEN m.starts[n] ELSE <<>>,
                                       PhaseOf(n))],
            !.skipped = @ \cup {pod.name : pod \in {q \in pods \ new :
                                                       q.name \notin m.followed}},
            !.api_calls = @ \cup (IF new # {} THEN {"read_namespaced_pod_log"} ELSE {})]

\* one pass of the loop of monitor_job_with_logs; read_fault and list_fault
\* are the failures of read_namespaced_job and list_namespaced_pod
monitor_job_with_logs_tick(m, status, pods, read_fault, list_fault) ==
    LET read == [m EXCEPT !.polls = @ + 1, !.api_calls = @ \cup {"read_namespaced_job"}]
        seen == [read EXCEPT !.observed = Append(@, status)]
        listed == [seen EXCEPT !.api_calls = @ \cup {"list_namespaced_pod"}]
        followed == FollowNewPods(listed, pods)
    IN  IF read_fault # 0 THEN LoopEnds(read, "error", read_fault)
        ELSE IF list_fault # 0 THEN LoopEnds(listed, "error", list_fault)
        ELSE IF IsTerminal(status) THEN LoopEnds(followed, "terminal", 0)
        ELSE [followed EXCEPT !.pc = "sleep"]

\* follow_pod_logs of one pod, woken by its stream: the next line is
\* printed, or ends the task unprinted when stop_event is set; the end of
\* the stream or an error on it ends the task
follow_pod_logs(m, pod_name, event) ==
    IF event = "line" /\ ~m.stop_event THEN [m EXCEPT !.printed[pod_name] = @ + 1]
    ELSE [m EXCEPT !.threads[pod_name] = "returned"]

\* mutant: the interrupted monitor removes the Job it was watching
Interrupted_DeletesJob(m, p) ==
    [monitor |-> LoopEnds(m, "interrupt", 0),
     platform |-> Platform(delete_job(Ctx(p), m.job_name, TRUE, FALSE))]

\* except KeyboardInterrupt: the monitor and the platform after it
Interrupted(m, p) == [monitor |-> LoopEnds(m, "interrupt", 0), platform |-> p]

----------------------------------------------------------------------------
(* Specification of the monitor: `k8r run app [--retry N] [-f] [-d] -- cmd`*)
(* has created the Job in a namespace that holds two secrets of the Job    *)
(* and a pod of another Job; the Job controller, the kubelet, the log      *)
(* streams and the user's interrupt key act while the monitor polls.       *)

\* most passes of the polling loop followed
MaxPolls == 2
\* most log lines a pod writes
MaxLines == 1

\* the command lines whose Job is monitored
MonitoredRuns ==
    {a \in ArgSets : /\ a.source = "app"
                     /\ a.job_name = None
                     /\ a.secret_job_name = None
                     /\ a.memory = None
                     /\ a.command_args # <<>>
                     /\ a.retry_limit \in {None, Some(MaxRetry)}}

\* the names of the pods that the Job controller creates for the Job
PodNames(job_name) == {job_name \o "-x7k2p", job_name \o "-q9zrv"}

InitMonitor ==
    /\ pc = "monitor"
    /\ args \in MonitoredRuns
    /\ \E follow, detach \in BOOLEAN :
          \E r \in {run_job_with_options(
                        Ctx([jobs |-> NoObjects, deployments |-> NoObjects,
                             configmaps |-> NoObjects, secrets |-> TwoSecrets("app"),
                             pods |-> {Pod("other-5d8fw", "other", "Running")},
                             images |-> {}]),
                        RunArgs(args), FALSE, FALSE, FALSE, TRUE)} :
              /\ platform = Platform(r.ctx)
              /\ last = [NoInvocation EXCEPT !.op = "run", !.name = r.name,
                                             !.calls = r.ctx.calls, !.changed = TRUE]
              /\ monitor = NewMonitor(r.name, follow, detach)
    /\ job_status = Status(0, 0, 0, FALSE)
    /\ runs = None
    /\ SanitizeIdle
    /\ ParseIdle
    /\ DetectIdle
    /\ NamingIdle

\* monitor_job(job_name, detach) or monitor_job_with_logs(job_name) is entered
MonitorStart ==
    /\ monitor.pc = "start"
    /\ monitor' = IF monitor.mode = "detached"
                  THEN MonitorReturns([monitor EXCEPT !.exit = "detached"])
                  ELSE [monitor EXCEPT !.pc = "poll"]
    /\ UNCHANGED <<pc, sanitizeVars, parseVars, detectVars, runVars, job_status, namingVars>>

\* one pass of the polling loop, up to its sleep or its break
Poll ==
    /\ monitor.pc = "poll"
    /\ \E read_fault, list_fault \in ApiFaults :
          monitor' =
              IF monitor.mode = "logs"
              THEN monitor_job_with_logs_tick(
                       monitor, job_status,
                       list_namespaced_pod(platform, monitor.job_name),
                       read_fault, list_fault)
              ELSE monitor_job_tick(monitor, job_status, read_fault)
    /\ UNCHANGED <<pc, sanitizeVars, parseVars, detectVars, runVars, job_status, namingVars>>

\* time.sleep(5) or time.sleep(2) returns
Tick ==
    /\ monitor.pc = "sleep"
    /\ monitor.polls < MaxPolls
    /\ monitor' = [monitor EXCEPT !.pc = "poll"]
    /\ UNCHANGED <<pc, sanitizeVars, parseVars, detectVars, runVars, job_status, namingVars>>

\* the user presses the interrupt key while the loop runs
Interrupt ==
    /\ monitor.pc \in {"poll", "sleep"}
    /\ \E r \in {Interrupted(monitor, platform)} :
          /\ monitor' = r.monitor
          /\ platform' = r.platform
    /\ UNCHANGED <<pc, sanitizeVars, parseVars, detectVars, args, last, runs, job_status,
                   namingVars>>

\* finally: stop_event.set()
SetStop ==
    /\ monitor.pc = "finally"
    /\ monitor' = [monitor EXCEPT !.stop_event = TRUE, !.pc = "grace"]
    /\ UNCHANGED <<pc, sanitizeVars, parseVars, detectVars, runVars, job_status, namingVars>>

\* finally: time.sleep(1) returns, and monitor_job_with_logs with it; the
\* threads are daemon threads and end with the process
GraceElapsed ==
    /\ monitor.pc = "grace"
    /\ monitor' = MonitorReturns(monitor)
    /\ UNCHANGED <<pc, sanitizeVars, parseVars, detectVars, runVars, job_status, namingVars>>

\* the log stream of a followed pod delivers the next line that the pod
\* has written, or ends
LogStream(pod_name) ==
    /\ monitor.pc # "done"
    /\ pod_name \in DOMAIN monitor.threads
    /\ monitor.threads[pod_name] = "reading"
    /\ \E event \in {"line", "end"} :
          /\ event = "line" =>
                 \E pod \in platform.pods :
                     pod.name = pod_name /\ monitor.printed[pod_name] < pod.lines
          /\ monitor' = follow_pod_logs(monitor, pod_name, event)
    /\ UNCHANGED <<pc, sanitizeVars, parseVars, detectVars, runVars, job_status, namingVars>>

\* the Job controller updates the status of the Job
JobProgress ==
    /\ job_status' \in NextStatuses(job_status, BackoffLimit(args.retry_limit))
    /\ UNCHANGED <<pc, sanitizeVars, parseVars, detectVars, runVars, monitor, namingVars>>

\* a pod of the Job is created, or moves to its next phase, as long as the
\* command runs
PodProgress(pod_name) ==
    /\ monitor.pc # "done"
    /\ IF \E pod \in platform.pods : pod.name = pod_name
       THEN \E pod \in platform.pods : \E phase \in NextPhases(pod.phase) :
               /\ pod.name = pod_name
               /\ platform' = [platform EXCEPT !.pods =
                                  (@ \ {pod}) \cup {[pod EXCEPT !.phase = phase]}]
       ELSE platform' = [platform EXCEPT !.pods =
                            @ \cup {Pod(pod_name, monitor.job_name, "Pending")}]
    /\ UNCHANGED <<pc, sanitizeVars, parseVars, detectVars, args, last, runs, monitorVars,
                   namingVars>>

\* a running pod of the Job writes a log line, while the Job is neither
\* complete nor failed and the command runs
PodWrites(pod_name) ==
    /\ monitor.pc # "done"
    /\ ~job_status.completion_time
    /\ job_status.failed = 0
    /\ \E pod \in platform.pods :
          /\ pod.name = pod_name
          /\ pod.phase = "Running"
          /\ pod.lines < MaxLines
          /\ platform' = [platform EXCEPT !.pods =
                             (@ \ {pod}) \cup {[pod EXCEPT !.lines = @ + 1]}]
    /\ UNCHANGED <<pc, sanitizeVars, parseVars, detectVars, args, last, runs, monitorVars,
                   namingVars>>

NextMonitor ==
    \/ MonitorStart
    \/ Poll
    \/ Tick
    \/ Interrupt
    \/ SetStop
    \/ GraceElapsed
    \/ \E pod_name \in PodNames(monitor.job_name) : LogStream(pod_name)
    \/ JobProgress
    \/ \E pod_name \in PodNames(monitor.job_name) : PodProgress(pod_name)

SpecMonitor == InitMonitor /\ [][NextMonitor]_vars

\* the monitor under fair scheduling of its polling loop: the thread of the
\* loop is not starved, every API call and every sleep of it returns.  The
\* log threads, the Job, the pods and the user are not bound to do anything
FairMonitor ==
    /\ WF_vars(MonitorStart)
    /\ WF_vars(Poll)
    /\ WF_vars(Tick)
    /\ WF_vars(SetStop)
    /\ WF_vars(GraceElapsed)

SpecMonitorFair == SpecMonitor /\ FairMonitor

----------------------------------------------------------------------------
(* Specification of the log monitor with the lines of the logs: k8r run    *)
(* app -f -- <command> is left to itself while the pod of its Job writes   *)
(* its log.                                                                *)

\* the pod of the Job
LoggedPods(job_name) == {job_name \o "-x7k2p"}

InitLogs ==
    /\ InitMonitor
    /\ monitor.mode = "logs"

NextLogs ==
    \/ MonitorStart
    \/ Poll
    \/ Tick
    \/ SetStop
    \/ GraceElapsed
    \/ JobProgress
    \/ \E pod_name \in LoggedPods(monitor.job_name) : LogStream(pod_name)
    \/ \E pod_name \in LoggedPods(monitor.job_name) : PodProgress(pod_name)
    \/ \E pod_name \in LoggedPods(monitor.job_name) : PodWrites(pod_name)

SpecLogs == InitLogs /\ [][NextLogs]_vars

----------------------------------------------------------------------------
(* Specification of the generated names: the secret command stores a       *)
(* secret for a job name, given by --job-name or taken from the working    *)
(* directory, and the run command names its workload, its ConfigMap and    *)
(* its secret volumes for the same job name.                               *)

\* longest job name and secret name tried
MaxLongLen == 65

RECURSIVE Repeat(_, _)
\* the first n characters of the unit written over and over
Repeat(unit, n) ==
    IF n <= 0 THEN ""
    ELSE IF n < Len(unit) THEN SubSeq(unit, 1, n)
    ELSE unit \o Repeat(unit, n - Len(unit))

\* names of the lengths around the limits 50, 55, 56 and 63, without and
\* with separators and characters to rewrite
LongNames ==
    {Repeat(unit, n) : unit \in {"a", "Ab_-", "x.y"}, n \in {1, 3, 8} \cup 49..MaxLongLen}

InitNaming ==
    /\ pc = "start"
    /\ \E job \in LongNames, secret_name \in LongNames, by_flag \in BOOLEAN :
          naming_in = [job_name |-> IF by_flag THEN Some(job) ELSE None,
                       cwd |-> IF by_flag THEN Cwd ELSE "/home/user/" \o job,
                       secret_name |-> secret_name]
    /\ naming_out = None
    /\ SanitizeIdle
    /\ ParseIdle
    /\ DetectIdle
    /\ RunIdle
    /\ MonitorIdle

\* k8r secret <secret_name> <value> [--job-name J], run in cwd
SecretCommand ==
    /\ pc = "start"
    /\ naming_out' = [secret |-> SecretNames(naming_in.secret_name, naming_in.job_name,
                                             naming_in.cwd)]
    /\ pc' = "stored"
    /\ UNCHANGED <<naming_in, sanitizeVars, parseVars, detectVars, runVars, monitorVars>>

\* k8r run <cwd> [--job-name J] --secret-job <the job name of the secret>:
\* the names of the workload, of its ConfigMap and of its secret volumes;
\* discovered holds the secrets that the run finds without --secret-job
RunCommand ==
    /\ pc = "stored"
    /\ LET stored == SecretObject(naming_out.secret, naming_in.secret_name, <<"value">>)
           ctx == Ctx([jobs |-> NoObjects, deployments |-> NoObjects,
                       configmaps |-> NoObjects, secrets |-> <<stored>>,
                       pods |-> {}, images |-> {}])
           g == generate_job_name(ctx, naming_in.cwd, "dir", naming_in.job_name, FALSE)
           job_secrets == get_job_secrets(ctx, naming_out.secret.effective_job_name)
       IN  naming_out' =
               [secret |-> naming_out.secret,
                workload |-> g.name,
                configmaps |-> DOMAIN create_directory_configmap(ctx, naming_in.cwd,
                                                                 g.name).configmaps,
                volumes |-> {SecretVolumeName(job_secrets[i]) : i \in 1..Len(job_secrets)},
                discovered |-> {get_job_secrets(ctx, g.name)[i].name :
                                   i \in 1..Len(get_job_secrets(ctx, g.name))}]
    /\ pc' = "named"
    /\ UNCHANGED <<naming_in, sanitizeVars, parseVars, detectVars, runVars, monitorVars>>

NextNaming == SecretCommand \/ RunCommand

SpecNaming == InitNaming /\ [][NextNaming]_vars

----------------------------------------------------------------------------
(* Specification of the rm command: k8r rm <job_name> [-f] [--rm-secrets]  *)
(* in a namespace that holds a Job and a Deployment of another tool and,   *)
(* as earlier runs left them, a k8r Deployment and a k8r Job of the        *)
(* directory app, their pods and their secrets.                            *)

\* a Deployment that another tool put into the namespace
ForeignDeployment(deployment_name) ==
    [kind |-> "Deployment", name |-> deployment_name, labels |-> [app |-> "web"]]

\* k8r run app, with no option
PlainRuns ==
    {a \in ArgSets : /\ a.source = "app"
                     /\ a.job_name = None
                     /\ a.retry_limit = None
                     /\ a.secret_job_name = None
                     /\ a.memory = None
                     /\ a.command_args = <<>>}

\* the names given to k8r rm
RmNames == {"app", "batch", "web", "gone"}

\* the pod of a workload, with the labels of its pod template
WorkloadPod(workload, phase) ==
    [name |-> workload.name \o (IF workload.kind = "Job" THEN "-x7k2p" ELSE "-5d8fw"),
     labels |-> workload.pod_labels, phase |-> phase]

\* the namespace before the runs: a Job and a Deployment of another tool
RmBase(secrets) ==
    [jobs |-> With(NoObjects, "batch", ForeignJob("batch")),
     deployments |-> With(NoObjects, "web", ForeignDeployment("web")),
     configmaps |-> NoObjects, secrets |-> secrets, pods |-> {}, images |-> {}]

InitRm ==
    /\ pc = "shell"
    /\ args \in PlainRuns
    /\ \E with_deployment, with_job, foreign \in BOOLEAN,
          secrets \in {<<>>, TwoSecrets("app")},
          job_phase, deployment_phase \in {"Pending", "Running", "Succeeded"} :
          /\ with_job => ~foreign
          /\ ~with_job => job_phase = "Pending"
          /\ ~with_deployment => deployment_phase = "Pending"
          /\ \E deployed \in {IF with_deployment
                               THEN Platform(run_job_with_options(
                                                 Ctx(RmBase(secrets)), RunArgs(args),
                                                 FALSE, TRUE, FALSE, TRUE).ctx)
                               ELSE RmBase(secrets)} :
                \E ran \in {IF with_job
                             THEN Platform(run_job_with_options(
                                               Ctx(deployed), RunArgs(args),
                                               FALSE, FALSE, FALSE, TRUE).ctx)
                             ELSE deployed} :
                    platform =
                        [ran EXCEPT
                            !.jobs = IF ~with_job /\ foreign
                                     THEN With(@, "app", ForeignJob("app")) ELSE @,
                            !.pods =
                                {WorkloadPod(ran.jobs[n], job_phase) :
                                    n \in DOMAIN ran.jobs \ {"batch"}}
                                \cup {WorkloadPod(ran.deployments[n], deployment_phase) :
                                         n \in DOMAIN ran.deployments \ {"web"}}]
    /\ last = NoInvocation
    /\ runs = None
    /\ SanitizeIdle
    /\ ParseIdle
    /\ DetectIdle
    /\ MonitorIdle
    /\ NamingIdle

\* main: k8r.delete_job(args.job_name, args.force, args.rm_secrets)
Rm(job_name, force, rm_secrets) ==
    \E ctx \in {delete_job(Ctx(platform), job_name, force, rm_secrets)} :
        /\ platform' = Platform(ctx)
        /\ last' = [op |-> "rm", name |-> job_name, force |-> force,
                    rm_secrets |-> rm_secrets, calls |-> ctx.calls]
        /\ UNCHANGED <<pc, args, runs, sanitizeVars, parseVars, detectVars, monitorVars,
                       namingVars>>

\* the kubelet moves a pod to its next phase
PodMoves ==
    \E pod \in platform.pods : \E phase \in NextPhases(pod.phase) :
        /\ platform' = [platform EXCEPT !.pods = (@ \ {pod}) \cup {[pod EXCEPT !.phase = phase]}]
        /\ UNCHANGED <<pc, args, last, runs, sanitizeVars, parseVars, detectVars, monitorVars,
                       namingVars>>

NextRm ==
    \/ \E job_name \in RmNames, force, rm_secrets \in BOOLEAN : Rm(job_name, force, rm_secrets)
    \/ PodMoves

SpecRm == InitRm /\ [][NextRm]_vars

----------------------------------------------------------------------------
(* Specification of the binding of secrets: the run command, with any of   *)
(* its flags, in a namespace that holds one secret made from a directory   *)
(* of two files, or two secrets that share a data key, or two secrets with *)
(* long names.                                                             *)

\* longest data key (file name) enumerated
MaxKeyLen == 2

\* a letter in both cases and the characters that the variable name replaces
KeyAlphabet == {"a", "A", "-", ".", "_"}

\* the relative paths of the files of a secret directory (src/k8r.py:1005-1012)
DataKeys == StringsUpTo(KeyAlphabet, MaxKeyLen) \ {""}

\* those of a lower-case letter and hyphens
PlainKeys == StringsUpTo({"a", "-"}, MaxKeyLen) \ {""}

\* the secrets of the job app in the namespace when the user starts: a file
\* of a plain name next to any other file, or two secrets
BoundSecretLists ==
    {<<Secret("app", "files", <<q[1], q[2]>>)>> :
        q \in {r \in PlainKeys \X DataKeys : r[1] # r[2]}}
    \cup {<<Secret("app", "db", <<"token">>), Secret("app", "api", <<k>>)>> :
             k \in {"token", "cert"}}
    \cup {<<Secret("app", Repeat("a", n), <<"user">>),
            Secret("app", Repeat("a", 58), <<"cert">>)>> : n \in {8, 57}}

InitBind ==
    /\ pc = "shell"
    /\ args \in PlainRuns
    /\ \E secrets \in BoundSecretLists :
          platform = [jobs |-> NoObjects, deployments |-> NoObjects,
                      configmaps |-> NoObjects, secrets |-> secrets,
                      pods |-> {}, images |-> {}]
    /\ last = NoInvocation
    /\ runs = None
    /\ SanitizeIdle
    /\ ParseIdle
    /\ DetectIdle
    /\ MonitorIdle
    /\ NamingIdle

SpecBind == InitBind /\ [][Next]_vars

----------------------------------------------------------------------------
(* Specification of two concurrent runs: two users issue k8r run on two    *)
(* directories of one basename, with no --rm, against one namespace.  Each *)
(* API call of create_job_with_yaml_option is a step; the creation of the  *)
(* ConfigMap and its replacement on 409 are taken as one.                  *)

Invocations == {1, 2}

\* the command lines of the two runs, up to the directory
RaceRuns ==
    {a \in ArgSets : /\ a.source = "app"
                     /\ a.job_name = None
                     /\ a.secret_job_name = None
                     /\ a.memory = None}

\* the arguments of invocation i
RaceArgs(i) == RunArgs([args EXCEPT !.source = runs[i].source])

InitRace ==
    /\ pc = "shell"
    /\ args \in RaceRuns
    /\ \E secrets \in SecretLists :
          platform = [jobs |-> NoObjects, deployments |-> NoObjects,
                      configmaps |-> NoObjects, secrets |-> secrets,
                      pods |-> {}, images |-> {}]
    /\ last = NoInvocation
    /\ runs = [i \in Invocations |->
                  [pc |-> "start",
                   source |-> IF i = 1 THEN args.source ELSE "/srv/" \o args.source,
                   name |-> "", err |-> "", calls |-> <<>>]]
    /\ SanitizeIdle
    /\ ParseIdle
    /\ DetectIdle
    /\ MonitorIdle
    /\ NamingIdle

\* generate_job_name: job_exists reads the Job of the name
NameChecked(i) ==
    /\ runs[i].pc = "start"
    /\ \E g \in {generate_job_name(Ctx(platform), runs[i].source, "dir",
                                   args.job_name, FALSE)} :
          runs' = [runs EXCEPT ![i] =
                      IF g.err # "" THEN [@ EXCEPT !.pc = "failed", !.err = g.err]
                      ELSE [@ EXCEPT !.pc = "named", !.name = g.name]]
    /\ UNCHANGED <<pc, args, platform, last, sanitizeVars, parseVars, detectVars,
                   monitorVars, namingVars>>

\* create_directory_configmap: the directory is packed and stored
SourceStored(i) ==
    /\ runs[i].pc = "named"
    /\ \E ctx \in {create_directory_configmap(Ctx(platform), runs[i].source,
                                              runs[i].name)} :
          /\ platform' = Platform(ctx)
          /\ runs' = [runs EXCEPT ![i].pc = "stored", ![i].calls = @ \o ctx.calls]
    /\ UNCHANGED <<pc, args, last, sanitizeVars, parseVars, detectVars, monitorVars,
                   namingVars>>

\* the secrets are listed, the Job is built and create_namespaced_job called
JobSubmitted(i) ==
    /\ runs[i].pc = "stored"
    /\ \E built \in {create_job_with_yaml_option(Ctx(platform), RaceArgs(i),
                                                 TRUE, TRUE, TRUE)} :
          \E r \in {create_namespaced_job(Ctx(platform), built.emitted[1])} :
              /\ platform' = Platform(r.ctx)
              /\ runs' = [runs EXCEPT ![i].pc = IF r.err = "" THEN "created" ELSE "failed",
                                      ![i].err = r.err,
                                      ![i].calls = @ \o r.ctx.calls]
    /\ UNCHANGED <<pc, args, last, sanitizeVars, parseVars, detectVars, monitorVars,
                   namingVars>>

NextRace == \E i \in Invocations : NameChecked(i) \/ SourceStored(i) \/ JobSubmitted(i)

SpecRace == InitRace /\ [][NextRace]_vars

----------------------------------------------------------------------------
(* Claims                                                                  *)

\* C1: sanitize_k8s_name is idempotent: applying it, with the same maximum
\* length, to its own result returns that result unchanged.
SanitizeIdempotent == pc = "resanitized" => resanitized = sanitized

\* a name that was rewritten, cut at max_length and stripped again, then
\* sanitized a second time
SanitizeIdempotentWitness ==
    /\ pc = "resanitized"
    /\ Len(SanitizeBody(raw_name)) > max_length
    /\ Len(sanitized) < max_length
    /\ sanitized # ""

\* C2: the sanitized name is no longer than max_length, neither starts nor
\* ends with a character outside [a-z0-9], and has no two adjacent
\* characters from {'-', '.'}.
SanitizeWellFormed ==
    pc # "start" =>
        /\ Len(sanitized) <= max_length
        /\ sanitized # "" =>
              /\ IsAlnum(CharAt(sanitized, 1))
              /\ IsAlnum(CharAt(sanitized, Len(sanitized)))
        /\ \A i \in 1..(Len(sanitized) - 1) :
              ~(IsSep(CharAt(sanitized, i)) /\ IsSep(CharAt(sanitized, i + 1)))

\* a name with an upper-case letter and repeated separators, cut after a separator
SanitizeWellFormedWitness ==
    /\ pc = "sanitized"
    /\ raw_name = "a-.B"
    /\ max_length = 2
    /\ sanitized = "a"

\* the (argument, result) pairs of the calls of normalize_quantity that
\* parse_resource_spec made for the spec s with the result p
NormalizeCalls(s, p) ==
    IF HasChar(s, "-")
    THEN LET i == FirstIndex(s, "-")
         IN  {<<SubSeq(s, 1, i - 1), p[1]>>, <<SubSeq(s, i + 1, Len(s)), p[2]>>}
    ELSE {<<s, p[1]>>, <<s, p[2]>>}

HyphenCount(s) == Cardinality({i \in 1..Len(s) : CharAt(s, i) = "-"})

\* C3: parse_resource_spec returns None for an absent spec, (q, q) with q
\* the normalized quantity for a single quantity and (normalized left,
\* normalized right) for a hyphenated pair; "8gb" gives ("8Gi", "8Gi"),
\* "2gb-8gb" gives ("2Gi", "8Gi") and "500m-2000m" gives ("500m", "2000m").
ParseResourceSpecPairs ==
    pc = "parsed" =>
        /\ resource_spec = None => parsed = None
        /\ resource_spec = Some("8gb") => parsed = <<"8Gi", "8Gi">>
        /\ resource_spec = Some("2gb-8gb") => parsed = <<"2Gi", "8Gi">>
        /\ resource_spec = Some("500m-2000m") => parsed = <<"500m", "2000m">>
        /\ \A s \in {resource_spec[i] : i \in 1..Len(resource_spec)} \ {""} :
              /\ HyphenCount(s) = 0 =>
                    parsed = <<normalize_quantity(s), normalize_quantity(s)>>
              /\ HyphenCount(s) = 1 =>
                    \E i \in 1..Len(s) :
                        /\ CharAt(s, i) = "-"
                        /\ parsed = <<normalize_quantity(SubSeq(s, 1, i - 1)),
                                      normalize_quantity(SubSeq(s, i + 1, Len(s)))>>

\* a hyphenated pair whose two sides differ and are both rewritten
ParseResourceSpecPairsWitness ==
    /\ pc = "parsed"
    /\ resource_spec = Some("2gb-8gb")
    /\ parsed = <<"2Gi", "8Gi">>

\* the suffix rewrite of the claim, applied to the quantity q with result r
SuffixRewritten(q, r) ==
    /\ EndsWith(q, "gb") => r = SubSeq(q, 1, Len(q) - 2) \o "Gi"
    /\ EndsWith(q, "mb") => r = SubSeq(q, 1, Len(q) - 2) \o "Mi"
    /\ ~EndsWith(q, "gb") /\ ~EndsWith(q, "mb") => r = q

\* C4 (as claimed): normalization is a pure suffix rewrite: 'gb' becomes
\* 'Gi', 'mb' becomes 'Mi', and every other quantity string is returned
\* character for character unchanged.
NormalizeIsPureSuffixRewrite ==
    pc = "parsed" /\ parsed # None =>
        \A c \in NormalizeCalls(resource_spec[1], parsed) :
            Strip(c[1]) # "" => SuffixRewritten(c[1], c[2])

\* C4 (amended): normalization strips leading and trailing whitespace from
\* the quantity and then rewrites the suffix: a stripped quantity ending in
\* 'gb' ends in 'Gi' instead, one ending in 'mb' ends in 'Mi' instead, and
\* every other stripped quantity is returned unchanged.
NormalizeStripsThenRewrites ==
    pc = "parsed" /\ parsed # None =>
        \A c \in NormalizeCalls(resource_spec[1], parsed) :
            SuffixRewritten(Strip(c[1]), c[2])

\* a quantity with a leading blank and the suffix 'mb'
NormalizeStripsThenRewritesWitness ==
    /\ pc = "parsed"
    /\ resource_spec = Some(" 8mb")
    /\ parsed = <<"8Mi", "8Mi">>

\* C5 (as claimed): every location that is an existing directory and whose
\* string ends in 'Dockerfile' is classified as Dockerfile.
DirectoryNamedDockerfileIsDockerfile ==
    pc = "detected" /\ isdir(path_kind) /\ EndsWith(location, "Dockerfile") =>
        detected = "dockerfile"

\* C5 (amended): an existing directory whose string is exactly 'Dockerfile'
\* is classified as Dockerfile; an existing directory whose string is longer
\* and ends in 'Dockerfile' is classified as GitRepo when it has one of the
\* git prefixes and as Directory otherwise.
DirectoryNamedDockerfile ==
    pc = "detected" /\ isdir(path_kind) /\ EndsWith(location, "Dockerfile") =>
        /\ location = "Dockerfile" => detected = "dockerfile"
        /\ location # "Dockerfile" /\ GitPrefixed(location) => detected = "github"
        /\ location # "Dockerfile" /\ ~GitPrefixed(location) => detected = "directory"

\* the directory named exactly 'Dockerfile'
DirectoryNamedDockerfileWitness ==
    /\ pc = "detected"
    /\ location = "Dockerfile"
    /\ isdir(path_kind)
    /\ detected = "dockerfile"

DockerfileRule == location = "Dockerfile" \/ (isfile(path_kind) /\ EndsWith(location, "Dockerfile"))
ContainerRule == HasChar(location, ":") /\ ~exists(path_kind)

\* C6: detect_source_type returns the kind of the first matching rule in
\* the order (1) exactly 'Dockerfile' or an existing file ending in
\* 'Dockerfile', (2) a git prefix (GitRepo, also for an existing directory),
\* (3) an existing directory, (4) contains ':' and does not exist
\* (ContainerImage), (5) otherwise a classification error.
DetectPrecedence ==
    pc = "detected" =>
        /\ DockerfileRule => detected = "dockerfile"
        /\ ~DockerfileRule /\ GitPrefixed(location) => detected = "github"
        /\ ~DockerfileRule /\ ~GitPrefixed(location) /\ isdir(path_kind) =>
              detected = "directory"
        /\ ~DockerfileRule /\ ~GitPrefixed(location) /\ ~isdir(path_kind) /\ ContainerRule =>
              detected = "container"
        /\ ~DockerfileRule /\ ~GitPrefixed(location) /\ ~isdir(path_kind) /\ ~ContainerRule =>
              detected = "ValueError"

\* a GitHub URL that is also an existing directory
DetectPrecedenceWitness ==
    /\ pc = "detected"
    /\ location = "https://github.com/u/repo"
    /\ isdir(path_kind)
    /\ detected = "github"

\* the objects of a mapping of names to objects
Objects(f) == {f[n] : n \in DOMAIN f}

\* every workload built so far: the Jobs and Deployments of k8r on the
\* platform and the object that the last invocation printed
BuiltWorkloads ==
    {w \in Objects(platform.jobs) \cup Objects(platform.deployments) : CreatedByK8r(w)}
    \cup {last.emitted[i] : i \in 1..Len(last.emitted)}

\* C7: in every Job built, an absent retry limit gives restart policy Never
\* and backoff limit 0, and a retry limit N (0 included) gives restart
\* policy OnFailure and backoff limit N.
RestartPolicyFollowsRetryLimit ==
    \A job \in {w \in BuiltWorkloads : w.kind = "Job"} :
        /\ args.retry_limit = None =>
              job.restart_policy = "Never" /\ job.backoff_limit = 0
        /\ \A n \in 0..MaxRetry :
              args.retry_limit = Some(n) =>
                  job.restart_policy = "OnFailure" /\ job.backoff_limit = n

\* a Job submitted by the run command with --retry 0
RestartPolicyFollowsRetryLimitWitness ==
    /\ last.op = "run"
    /\ last.err = ""
    /\ ~last.show_yaml
    /\ args.retry_limit = Some(0)
    /\ last.name \in DOMAIN platform.jobs
    /\ platform.jobs[last.name].restart_policy = "OnFailure"

\* the secrets on the platform that carry the labels the workload w was
\* built to look for
DiscoveredFor(w) ==
    LET lookup == IF args.secret_job_name = None THEN w.name
                  ELSE args.secret_job_name[1]
    IN  {platform.secrets[i] : i \in
            {k \in 1..Len(platform.secrets) :
                /\ platform.secrets[k].labels.created_by = "k8r"
                /\ platform.secrets[k].labels.k8r_job = lookup}}

\* C8: a built workload has exactly one secret volume per discovered
\* secret and no two volumes for one platform secret, exactly one mount
\* and exactly one environment variable per (secret, key) pair, however
\* often it is built; two secrets of two keys each give 2 secret volumes,
\* 4 secret mounts and 4 environment variables.
OneVolumePerSecretOneMountPerKey ==
    \A w \in BuiltWorkloads :
        LET found == DiscoveredFor(w)
            container == w.containers[1]
            secret_volumes == {i \in 1..Len(w.volumes) : w.volumes[i].kind = "secret"}
            secret_mounts == {i \in 1..Len(container.volume_mounts) :
                                 container.volume_mounts[i].sub_path # None}
            VolumesOf(d) == {i \in secret_volumes : w.volumes[i].ref = d.name}
            MountsOf(d, key) ==
                {i \in secret_mounts :
                    /\ \E v \in VolumesOf(d) :
                          w.volumes[v].name = container.volume_mounts[i].name
                    /\ container.volume_mounts[i].sub_path = Some(key)}
            EnvOf(d, key) ==
                {i \in 1..Len(container.env) :
                    /\ container.env[i].secret_name = d.name
                    /\ container.env[i].key = key}
        IN  /\ \A d \in found : Cardinality(VolumesOf(d)) = 1
            /\ Cardinality(secret_volumes) = Cardinality(found)
            /\ \A d \in found : \A k \in 1..Len(d.data_keys) :
                  /\ Cardinality(MountsOf(d, d.data_keys[k])) = 1
                  /\ Cardinality(EnvOf(d, d.data_keys[k])) = 1
            /\ \A i \in secret_mounts : \E d \in found : \E k \in 1..Len(d.data_keys) :
                  i \in MountsOf(d, d.data_keys[k])
            /\ \A i \in 1..Len(container.env) : \E d \in found :
                  \E k \in 1..Len(d.data_keys) : i \in EnvOf(d, d.data_keys[k])
            /\ (Cardinality(found) = 2 /\ \A d \in found : Len(d.data_keys) = 2) =>
                  /\ Cardinality(secret_volumes) = 2
                  /\ Cardinality(secret_mounts) = 4
                  /\ Len(container.env) = 4

\* a Job with two secrets of two keys each, built again by run --rm after
\* the first Job of the name was deleted
OneVolumePerSecretOneMountPerKeyWitness ==
    /\ last.op = "run"
    /\ last.rm_existing
    /\ last.err = ""
    /\ \E i \in 1..Len(last.calls) : last.calls[i].op = "delete_namespaced_job"
    /\ last.name \in DOMAIN platform.jobs
    /\ Cardinality(DiscoveredFor(platform.jobs[last.name])) = 2
    /\ Len(platform.jobs[last.name].containers[1].env) = 4

\* the workload that the last invocation built, when it built one
LastBuilt ==
    IF last.err # "" \/ last.op = "none" THEN {}
    ELSE IF last.show_yaml THEN {last.emitted[1]}
    ELSE IF last.as_deployment THEN {platform.deployments[last.name]}
    ELSE {platform.jobs[last.name]}

\* C9: for a run of a ContainerImage source the image is the location; the
\* command is ["/bin/sh", "-c", <the words joined by blanks>] when the user
\* gave a command, and there is no command override when the user gave none.
ContainerImageRun ==
    (last.op = "run" /\ detect_source_type(args.source, args.path_kind) = "container") =>
        \A w \in LastBuilt :
            /\ w.containers[1].image = args.source
            /\ args.command_args # <<>> =>
                  w.containers[1].command =
                      <<"/bin/sh", "-c", Join(args.command_args, " ")>>
            /\ args.command_args = <<>> => w.containers[1].command = None

\* C10: with --show-yaml, run_job_with_options issues no create, replace or
\* delete call and no image build, for a Job or a Deployment, any source
\* kind, with or without --rm: the platform is as it was before the call.
DryRunChangesNothing ==
    (last.op = "run" /\ last.show_yaml) => (last.calls = <<>> /\ ~last.changed)

\* a dry run with --rm of a directory source whose Job already exists
DryRunChangesNothingWitness ==
    /\ last.op = "run"
    /\ last.show_yaml
    /\ last.rm_existing
    /\ last.err = ""
    /\ last.emitted # None
    /\ last.name \in DOMAIN platform.jobs
    /\ detect_source_type(args.source, args.path_kind) = "directory"

\* the workload that the command line of the last invocation submits when
\* it is repeated without --show-yaml on the platform as it is now
Submitted ==
    LET r == run_job_with_options(Ctx(platform), RunArgs(args), FALSE,
                                  last.as_deployment, last.rm_existing, TRUE)
    IN  IF r.err # "" THEN {}
        ELSE IF last.as_deployment THEN {r.ctx.deployments[r.name]}
        ELSE {r.ctx.jobs[r.name]}

\* C11: the workload printed by a dry run equals, field by field, the
\* workload that the same command line without --show-yaml submits on the
\* same platform state, for every source kind.
DryRunEmitsWhatIsSubmitted ==
    (last.op = "run" /\ last.show_yaml /\ last.err = "") =>
        \A w \in Submitted : w = last.emitted[1]

\* the name that generate_job_name gives the workload of the command line
GeneratedName ==
    generate_job_name(Ctx(platform), args.source, args.path_kind, args.job_name, TRUE).name

\* the source of the command line is one that detect_source_type classifies
Classified == detect_source_type(args.source, args.path_kind) # "ValueError"

\* C12: when a Job of the generated name exists and the run is not given
\* --rm, creation raises the already-exists error and the run has created,
\* replaced and deleted nothing.
FailFastNaming ==
    [][(/\ last'.op \in {"run", "create_job"}
        /\ ~last'.rm_existing
        /\ Classified
        /\ GeneratedName \in DOMAIN platform.jobs)
       => (/\ last'.err = "AlreadyExists"
           /\ last'.calls = <<>>
           /\ platform' = platform)]_vars

\* a Deployment of a directory is asked for while a Job of the name exists:
\* the ConfigMap of the Job is still the only one and was not replaced
FailFastNamingWitness ==
    /\ last.op = "run"
    /\ last.as_deployment
    /\ ~last.show_yaml
    /\ ~last.rm_existing
    /\ last.err = "AlreadyExists"
    /\ detect_source_type(args.source, args.path_kind) = "directory"
    /\ GeneratedName \in DOMAIN platform.jobs
    /\ CreatedByK8r(platform.jobs[GeneratedName])
    /\ (GeneratedName \o "-source") \in DOMAIN platform.configmaps
    /\ platform.deployments = NoObjects

\* the position of the first call of the operation op in calls, 0 for none
FirstCall(calls, op) ==
    IF \E i \in 1..Len(calls) : calls[i].op = op
    THEN CHOOSE i \in 1..Len(calls) :
             /\ calls[i].op = op
             /\ \A j \in 1..(i - 1) : calls[j].op # op
    ELSE 0

\* C13: a job run with --rm and without --show-yaml that finds a Job of the
\* generated name deletes it before it submits the new one and ends with
\* the new Job created, not with an already-exists failure.
RmReplacesExistingJob ==
    [][(/\ last'.op = "run"
        /\ last'.rm_existing
        /\ ~last'.show_yaml
        /\ ~last'.as_deployment
        /\ Classified
        /\ GeneratedName \in DOMAIN platform.jobs
        /\ last'.err # "BuildError")
       => (/\ last'.err = ""
           /\ FirstCall(last'.calls, "delete_namespaced_job") > 0
           /\ FirstCall(last'.calls, "delete_namespaced_job")
                 < FirstCall(last'.calls, "create_namespaced_job")
           /\ GeneratedName \in DOMAIN platform'.jobs
           /\ CreatedByK8r(platform'.jobs[GeneratedName]))]_vars

\* a terminal job status: the completion time is set, or the failed count
\* is greater than 0
TerminalStatus(status) == status.completion_time \/ status.failed > 0

\* C14: in both monitor modes the first poll that observes a terminal job
\* status is the last poll: no status is read or reported after it, and
\* the polling loop is left.
NoPollAfterTerminal ==
    LET n == Len(monitor.observed)
    IN  /\ \A i \in 1..(n - 1) : ~TerminalStatus(monitor.observed[i])
        /\ (n > 0 /\ TerminalStatus(monitor.observed[n])) =>
              /\ monitor.pc \in {"finally", "grace", "done"}
              /\ monitor.polls = n

\* the log monitor has returned after its second poll saw a failed count
\* of 1 and no completion time
NoPollAfterTerminalWitness ==
    /\ monitor.mode = "logs"
    /\ monitor.pc = "done"
    /\ monitor.exit = "terminal"
    /\ Len(monitor.observed) = 2
    /\ monitor.observed[2] = Status(0, 0, 1, FALSE)

\* C15: in both monitor modes a transient error of the status read or of
\* the pod listing is logged and the loop goes on with the next tick: the
\* loop is never left because of such an error.
TransientErrorRetried == ~(monitor.exit = "error" /\ monitor.error_status = 500)

\* an API call whose name says that it creates, replaces or deletes
Mutating(op) ==
    StartsWith(op, "create_") \/ StartsWith(op, "replace_") \/ StartsWith(op, "delete_")

\* C16: the interrupt, in either mode, ends the polling loop and issues no
\* create, replace or delete call: the step of the interrupt and every
\* later step of the monitor leave the Job, its pods, its ConfigMap and its
\* secrets as the platform has them, and no status is polled any more.
CancelLeavesWorkload ==
    [][/\ (monitor.exit = "" /\ monitor'.exit = "interrupt") =>
              /\ platform' = platform
              /\ job_status' = job_status
              /\ monitor'.pc \in {"finally", "done"}
       /\ monitor'.exit = "interrupt" =>
              /\ monitor'.polls = monitor.polls
              /\ monitor'.api_calls = monitor.api_calls
              /\ \A op \in monitor'.api_calls : ~Mutating(op)
              /\ monitor' # monitor => (platform' = platform /\ job_status' = job_status)
      ]_vars

\* the log monitor was interrupted while it followed a running pod and has
\* returned: Job, ConfigMap, secrets and pod are in place
CancelLeavesWorkloadWitness ==
    /\ monitor.mode = "logs"
    /\ monitor.exit = "interrupt"
    /\ monitor.pc = "done"
    /\ monitor.job_name \in DOMAIN platform.jobs
    /\ (monitor.job_name \o "-source") \in DOMAIN platform.configmaps
    /\ Len(platform.secrets) = 2
    /\ \E pod \in platform.pods : pod.phase = "Running" /\ pod.name \in monitor.followed

\* C17: in log-follow mode every log task that was started has returned
\* when the grace period after the stop signal is over, also a task that
\* waits on a stream that delivers no further line.
LogTasksReturnInGrace ==
    (monitor.mode = "logs" /\ monitor.pc = "done") =>
        \A n \in DOMAIN monitor.threads : monitor.threads[n] = "returned"

\* C18: when an API call fails with a status other than not-found and
\* already-exists, the command ends with a non-zero exit status.
ApiFailureExitsNonZero ==
    (monitor.pc = "done" /\ monitor.error_status \notin {0, 404, 409}) =>
        monitor.exit_code # Some(0)

\* the phases in which a pod has logs to follow
Followable == {"Running", "Succeeded", "Failed"}

\* C20: in log-follow mode at most one log task is ever started per pod
\* name, and only for a pod seen Running, Succeeded or Failed; a pod seen
\* in another phase is not marked as followed, and a tick that lists a pod
\* in one of the three phases leaves it with its task started.
OneLogTaskPerPod ==
    [][/\ \A n \in DOMAIN monitor'.starts :
              /\ Len(monitor'.starts[n]) <= 1
              /\ \A i \in 1..Len(monitor'.starts[n]) : monitor'.starts[n][i] \in Followable
       /\ monitor'.followed = DOMAIN monitor'.starts
       /\ DOMAIN monitor'.threads = DOMAIN monitor'.starts
       /\ (/\ monitor.mode = "logs"
           /\ monitor.pc = "poll"
           /\ monitor'.pc \in {"sleep", "finally"}
           /\ monitor'.exit \in {"", "terminal"}) =>
              \A pod \in list_namespaced_pod(platform, monitor.job_name) :
                  /\ pod.phase \in Followable => pod.name \in DOMAIN monitor'.starts
                  /\ (pod.phase \notin Followable /\ pod.name \notin monitor.followed) =>
                        pod.name \notin monitor'.followed
      ]_vars

\* a pod that one tick listed as Pending and left out has its one task,
\* started by a later tick, while the other pod of the Job is followed too
OneLogTaskPerPodWitness ==
    /\ monitor.mode = "logs"
    /\ monitor.polls = 2
    /\ \E n \in monitor.skipped : n \in DOMAIN monitor.starts /\ Len(monitor.starts[n]) = 1
    /\ Cardinality(monitor.followed) = 2

\* C19: every generated name stays within the platform's 63 characters:
\* the workload name has at most 55, the ConfigMap name '<workload>-source'
\* at most 63, each secret volume name 'secret-<sanitized name>' at most 63
\* and the full secret name '<job>-<sanitized secret name>' at most 63.
GeneratedNamesFit ==
    /\ pc \in {"stored", "named"} => Len(naming_out.secret.full_secret_name) <= 63
    /\ pc = "named" =>
          /\ Len(naming_out.workload) <= 55
          /\ naming_out.configmaps = {naming_out.workload \o "-source"}
          /\ \A n \in naming_out.configmaps : Len(n) <= 63
          /\ naming_out.volumes # {}
          /\ \A n \in naming_out.volumes : StartsWith(n, "secret-") /\ Len(n) <= 63

\* a job name of 61 characters and a long secret name: every name is cut,
\* the full secret name and the volume name to exactly 63 characters
GeneratedNamesFitWitness ==
    /\ pc = "named"
    /\ naming_in.job_name # None
    /\ Len(naming_in.job_name[1]) = 61
    /\ Len(naming_in.secret_name) > 63
    /\ Len(naming_out.secret.full_secret_name) = 63
    /\ Len(naming_out.workload) = 55
    /\ \E n \in naming_out.volumes : Len(n) = 63

----------------------------------------------------------------------------
(* Claims on deployments, deletion, secrets and concurrent runs             *)

\* C21: when a Deployment of the generated name exists, creating a
\* Deployment of that name (no dry run, no --rm) fails and has created or
\* replaced no object: the only call is the rejected creation, and the
\* ConfigMap <name>-source is as it was.
DeploymentFailFast ==
    [][(/\ last'.op = "run"
        /\ last'.as_deployment
        /\ ~last'.show_yaml
        /\ ~last'.rm_existing
        /\ Classified
        /\ GeneratedName \in DOMAIN platform.deployments)
       => (/\ last'.err # ""
           /\ \A i \in 1..Len(last'.calls) :
                 last'.calls[i] = Call("create_namespaced_deployment", GeneratedName)
           /\ platform' = platform)]_vars

\* the k8r workload that delete_job addresses under the name: the Job of
\* that name when it carries the label created-by=k8r, else the Deployment
\* of that name when it carries the label; None when there is neither
Addressed(p, job_name) ==
    IF /\ job_name \in DOMAIN p.jobs
       /\ "created_by" \in DOMAIN p.jobs[job_name].labels
       /\ p.jobs[job_name].labels.created_by = "k8r"
    THEN Some(p.jobs[job_name])
    ELSE IF /\ job_name \in DOMAIN p.deployments
            /\ "created_by" \in DOMAIN p.deployments[job_name].labels
            /\ p.deployments[job_name].labels.created_by = "k8r"
    THEN Some(p.deployments[job_name])
    ELSE None

\* the workload has a pod in phase Running
HasRunningPod(p, workload) ==
    \E pod \in p.pods : pod.labels = workload.pod_labels /\ pod.phase = "Running"

RmSparesForeignWorkloads ==
    [][\A job_name \in RmNames, force, rm_secrets \in BOOLEAN :
          Rm(job_name, force, rm_secrets) =>
              /\ \A n \in DOMAIN platform.jobs :
                    ("created_by" \notin DOMAIN platform.jobs[n].labels
                     \/ platform.jobs[n].labels.created_by # "k8r")
                    => (/\ n \in DOMAIN platform'.jobs
                        /\ platform'.jobs[n] = platform.jobs[n])
              /\ \A n \in DOMAIN platform.deployments :
                    ("created_by" \notin DOMAIN platform.deployments[n].labels
                     \/ platform.deployments[n].labels.created_by # "k8r")
                    => (/\ n \in DOMAIN platform'.deployments
                        /\ platform'.deployments[n] = platform.deployments[n])
              /\ Addressed(platform, job_name) = None
                    => (last'.calls = <<>> /\ platform' = platform)
      ]_vars

\* rm -f --rm-secrets was given the name of a Job of another tool, next to
\* a k8r Deployment of the same name: the Deployment is gone, the Job stays
RmSparesForeignWorkloadsWitness ==
    /\ last.op = "rm"
    /\ last.force
    /\ last.rm_secrets
    /\ last.calls # <<>>
    /\ last.name \in DOMAIN platform.jobs
    /\ platform.jobs[last.name] = ForeignJob(last.name)
    /\ last.name \notin DOMAIN platform.deployments

\* the character class [A-Za-z0-9]
IsAlnumAnyCase(c) == IsAlnum(c) \/ c \in UpperCaseChars

\* what the platform accepts as the name of an object: lower-case letters,
\* digits, '-' and '.', each part between dots starting and ending with a
\* letter or digit
AcceptedName(n) ==
    /\ n # ""
    /\ \A i \in 1..Len(n) : IsAlnum(CharAt(n, i)) \/ CharAt(n, i) \in {"-", "."}
    /\ IsAlnum(CharAt(n, 1)) /\ IsAlnum(CharAt(n, Len(n)))
    /\ \A i \in 1..(Len(n) - 1) :
          /\ CharAt(n, i) = "." => IsAlnum(CharAt(n, i + 1))
          /\ CharAt(n, i + 1) = "." => IsAlnum(CharAt(n, i))

\* what the platform accepts as the value of a label: at most 63 of
\* letters, digits, '-', '_' and '.', with a letter or digit at both ends
AcceptedLabelValue(v) ==
    /\ Len(v) <= NameMaxLength
    /\ \A i \in 1..Len(v) : IsAlnumAnyCase(CharAt(v, i)) \/ CharAt(v, i) \in {"-", "_", "."}
    /\ v # "" => IsAlnumAnyCase(CharAt(v, 1)) /\ IsAlnumAnyCase(CharAt(v, Len(v)))

\* the platform has accepted the secret of the secret command
SecretCreated ==
    /\ AcceptedName(naming_out.secret.full_secret_name)
    /\ AcceptedLabelValue(naming_out.secret.effective_job_name)
    /\ AcceptedLabelValue(naming_in.secret_name)

\* C24: the secret that the secret command created for the job name J,
\* given by --job-name or taken from the working directory, is among the
\* secrets that a later run with the same J, or from the same directory,
\* discovers: the run queries on the label value that the secret carries.
CreatedSecretIsDiscovered ==
    (pc = "named" /\ SecretCreated) =>
        naming_out.secret.full_secret_name \in naming_out.discovered

\* the indices of the environment variables of workload w that read two
\* different keys of one secret
KeyPairs(w) ==
    {p \in (1..Len(w.containers[1].env)) \X (1..Len(w.containers[1].env)) :
        /\ w.containers[1].env[p[1]].secret_name = w.containers[1].env[p[2]].secret_name
        /\ w.containers[1].env[p[1]].key # w.containers[1].env[p[2]].key}

\* C25 as claimed: in a built container, two different data keys of one
\* secret never get the same environment variable name.
DistinctKeysDistinctEnvNames ==
    \A w \in BuiltWorkloads : \A p \in KeyPairs(w) :
        w.containers[1].env[p[1]].name # w.containers[1].env[p[2]].name

\* two keys of one length that differ, position by position, only in the
\* case of a letter or in which of '-', '.' and '_' stands there
AlikeKeys(k1, k2) ==
    /\ Len(k1) = Len(k2)
    /\ \A i \in 1..Len(k1) :
          \/ LowerChar(CharAt(k1, i)) = LowerChar(CharAt(k2, i))
          \/ {CharAt(k1, i), CharAt(k2, i)} \subseteq {"-", ".", "_"}

\* C25, amended: in a built container, two different data keys of one
\* secret get the same environment variable name exactly when they are of
\* one length and differ only in letter case or in which of '-', '.' and
\* '_' stands at a position; every other two keys get different names.
EnvNamesDistinctUpToCaseAndSeparators ==
    \A w \in BuiltWorkloads : \A p \in KeyPairs(w) :
        (w.containers[1].env[p[1]].name = w.containers[1].env[p[2]].name)
        <=> AlikeKeys(w.containers[1].env[p[1]].key, w.containers[1].env[p[2]].key)

\* a Job was created with a secret of the files "a-" and "a.": both are
\* read through the variable A_; and a dry run with the files "a" and "-a"
EnvNamesDistinctUpToCaseAndSeparatorsWitness ==
    /\ last.op = "run"
    /\ last.err = ""
    /\ \/ /\ ~last.show_yaml
          /\ last.name \in DOMAIN platform.jobs
          /\ \E p \in KeyPairs(platform.jobs[last.name]) :
                LET env == platform.jobs[last.name].containers[1].env
                IN  /\ env[p[1]].key = "a-" /\ env[p[2]].key = "a."
                    /\ env[p[1]].name = "A_" /\ env[p[2]].name = "A_"
       \/ /\ last.show_yaml
          /\ \E p \in KeyPairs(last.emitted[1]) :
                LET env == last.emitted[1].containers[1].env
                IN  /\ env[p[1]].key = "a" /\ env[p[2]].key = "-a"
                    /\ env[p[1]].name = "A" /\ env[p[2]].name = "_A"

\* C26: in a built container no two volume mounts have the same mount
\* path, and no two volumes of the pod have the same name, whatever
\* secrets were discovered.
MountPathsAndVolumeNamesUnique ==
    \A w \in BuiltWorkloads :
        /\ \A i, j \in 1..Len(w.containers[1].volume_mounts) :
              i # j => w.containers[1].volume_mounts[i].mount_path
                       # w.containers[1].volume_mounts[j].mount_path
        /\ \A i, j \in 1..Len(w.volumes) : i # j => w.volumes[i].name # w.volumes[j].name

\* C27: of two concurrent runs on directories that give one job name, at
\* most one creates the Job, and once both have finished the ConfigMap
\* <name>-source holds the archive of the run that created the Job.
RaceKeepsSourceOfCreatedJob ==
    /\ Cardinality({i \in Invocations : runs[i].pc = "created"}) <= 1
    /\ (\A i \in Invocations : runs[i].pc \in {"created", "failed"}) =>
          \A i \in Invocations :
              runs[i].pc = "created" =>
                  platform.configmaps[runs[i].name \o "-source"]
                      = [source_tar_gz |-> Archive(runs[i].source)]

\* the monitor has printed "Job failed with N failures" and has returned
ReportedFailure ==
    /\ monitor.pc = "done"
    /\ monitor.exit = "terminal"
    /\ ~monitor.observed[Len(monitor.observed)].completion_time

\* C28: a Job that either monitor has reported as failed, and returned,
\* never reaches successful completion, with or without a retry limit.
ReportedFailureIsFinal == ReportedFailure => ~job_status.completion_time

\* C29: when the log monitor has seen the Job complete or failed and has
\* returned, every line that a followed pod wrote before the Job was
\* complete or failed has been printed.
FollowedLogsPrintedBeforeReturn ==
    (monitor.mode = "logs" /\ monitor.pc = "done" /\ monitor.exit = "terminal") =>
        \A pod \in platform.pods :
            pod.name \in monitor.followed => monitor.printed[pod.name] = pod.lines

\* C30: under fair scheduling of the polling loop, once the Job is complete
\* or failed (a status it keeps) a monitor of either mode that has a pass
\* of its loop left returns; the log monitor returns after its grace wait
\* whether or not its log tasks have finished.
MonitorTerminates ==
    (TerminalStatus(job_status) /\ monitor.polls < MaxPolls) ~> (monitor.pc = "done")

\* the log monitor has seen the Job failed and has returned after the grace
\* wait while the task of a followed pod still reads its stream
MonitorTerminatesWitness ==
    /\ monitor.mode = "logs"
    /\ monitor.pc = "done"
    /\ monitor.exit = "terminal"
    /\ monitor.stop_event
    /\ TerminalStatus(job_status)
    /\ \E n \in DOMAIN monitor.threads : monitor.threads[n] = "reading"

====
